---- MODULE Spec2Model ----
(***************************************************************************)
(* A model of the font analysis engine of font-validator-app               *)
(* (src/src/lib/fontAnalysis/fontValidator.js).                            *)
(*                                                                         *)
(* The engine is a pipeline of pure functions over a parsed font.  Every   *)
(* function is an operator that computes what the JavaScript computes;     *)
(* every specification draws the arguments of one entry point from a       *)
(* bounded set (Init) and applies it (one action per entry point).  The    *)
(* two asynchronous entry points, analyzeFontFile and compareFonts, return *)
(* a pending promise at their first await and go on when the FileReader    *)
(* has delivered: one action is the code up to an await, one the code from *)
(* the delivery to the next await or to the settlement.  The React hooks   *)
(* that call the engine (src/src/hooks) and the Compare page are state     *)
(* machines: results holds the component state, and one action is one      *)
(* handler, one settled promise or one effect.                             *)
(*                                                                         *)
(* Representation of JavaScript values:                                    *)
(*   - a metric string "0.57 em" is the integer 57 (hundredths of an em),  *)
(*     so parseFloat("0.57 em") * 100 is that integer; a string that does  *)
(*     not start with a number is NaN;                                     *)
(*   - objects are records; a property that is undefined is a key that is  *)
(*     missing from the record's DOMAIN;                                   *)
(*   - strings are strings, searched and lower-cased character by          *)
(*     character;                                                          *)
(*   - a call that may throw yields an outcome record: the returned value  *)
(*     or the message of the thrown error; a promise is pending,          *)
(*     fulfilled with a value or rejected with a message.                  *)
(***************************************************************************)
EXTENDS Integers, Sequences, FiniteSets, TLC

VARIABLES
    input,      \* the arguments of the call under analysis, or the font of
                \* the context that a component reads
    results     \* the outcomes of the calls made so far, oldest first, the
                \* promises of the asynchronous calls, or the state of the
                \* component

vars == <<input, results>>

---------------------------------------------------------------------------
(* JavaScript numbers and strings                                          *)

\* The number NaN (parseFloat of a string with no numeric prefix).
NaN == -999999

\* An array slot read out of range (uniqueRecommendations[NaN]).
Undefined == "<undefined>"

isNaN(v) == v = NaN

\* The number -0 where a number stands for a formatted string: "-0.00 em"
\* (toFixed of a negative number that rounds to zero keeps the sign).
NegativeZero == -888888

\* parseFloat of such a string where the sign of zero makes no difference
WithoutSignOfZero(v) == IF v = NegativeZero THEN 0 ELSE v

Abs(v) == IF v < 0 THEN -v ELSE v

Max(a, b) == IF a >= b THEN a ELSE b

Min(a, b) == IF a <= b THEN a ELSE b

\* a + b, a - b on numbers that may be NaN
Plus(a, b) ==
    IF isNaN(a) \/ isNaN(b) THEN NaN
    ELSE WithoutSignOfZero(a) + WithoutSignOfZero(b)

\* a > b, a < b: every comparison with NaN is false
Gt(a, b) ==
    ~isNaN(a) /\ ~isNaN(b) /\ WithoutSignOfZero(a) > WithoutSignOfZero(b)

Lt(a, b) ==
    ~isNaN(a) /\ ~isNaN(b) /\ WithoutSignOfZero(a) < WithoutSignOfZero(b)

\* String.prototype.includes
Includes(s, sub) ==
    \E i \in 1..(Len(s) - Len(sub) + 1) : SubSeq(s, i, i + Len(sub) - 1) = sub

UpperCase == "ABCDEFGHIJKLMNOPQRSTUVWXYZ"

LowerCase == "abcdefghijklmnopqrstuvwxyz"

LowerChar(c) ==
    IF \E i \in 1..Len(UpperCase) : SubSeq(UpperCase, i, i) = c
    THEN LET i == CHOOSE j \in 1..Len(UpperCase) : SubSeq(UpperCase, j, j) = c
         IN  SubSeq(LowerCase, i, i)
    ELSE c

\* String.prototype.toLowerCase, on the characters lo..hi of s (halved, so
\* that the evaluation stays shallow)
RECURSIVE LowerRange(_, _, _)
LowerRange(s, lo, hi) ==
    IF lo > hi THEN ""
    ELSE IF lo = hi THEN LowerChar(SubSeq(s, lo, lo))
    ELSE LET mid == (lo + hi) \div 2
         IN  LowerRange(s, lo, mid) \o LowerRange(s, mid + 1, hi)

toLowerCase(s) == LowerRange(s, 1, Len(s))

---------------------------------------------------------------------------
(* JavaScript arithmetic: IEEE 754 double precision, round to nearest even  *)

\* A natural number of any size is the sequence of its digits in base 2^15,
\* least significant first and without leading zero digits (0 is <<>>).
LimbBase == 2 ^ 15

RECURSIVE BitLenOfDigit(_)
BitLenOfDigit(d) == IF d = 0 THEN 0 ELSE 1 + BitLenOfDigit(d \div 2)

LimbBits == BitLenOfDigit(LimbBase - 1)

\* the binary digits of the significand of a double
SignificandBits == 53

RECURSIVE Pow2(_)
Pow2(k) == IF k = 0 THEN 1 ELSE 2 * Pow2(k - 1)

RECURSIVE BigOf(_)
BigOf(n) == IF n = 0 THEN <<>> ELSE <<n % LimbBase>> \o BigOf(n \div LimbBase)

RECURSIVE BigTrim(_)
BigTrim(a) ==
    IF Len(a) > 0 /\ a[Len(a)] = 0 THEN BigTrim(SubSeq(a, 1, Len(a) - 1)) ELSE a

\* the value of a number below 2^30
BigToInt(a) ==
    IF Len(a) = 0 THEN 0
    ELSE IF Len(a) = 1 THEN a[1]
    ELSE a[1] + LimbBase * a[2]

\* -1, 0 or 1 as a is below, equal to or above b
RECURSIVE BigCmpFrom(_, _, _)
BigCmpFrom(a, b, i) ==
    IF i = 0 THEN 0
    ELSE IF a[i] < b[i] THEN -1
    ELSE IF a[i] > b[i] THEN 1
    ELSE BigCmpFrom(a, b, i - 1)

BigCmp(a, b) ==
    IF Len(a) < Len(b) THEN -1
    ELSE IF Len(a) > Len(b) THEN 1
    ELSE BigCmpFrom(a, b, Len(a))

BigDigit(a, i) == IF i <= Len(a) THEN a[i] ELSE 0

RECURSIVE BigAddFrom(_, _, _, _)
BigAddFrom(a, b, i, carry) ==
    IF i > Len(a) /\ i > Len(b)
    THEN (IF carry = 0 THEN <<>> ELSE <<carry>>)
    ELSE LET sum == BigDigit(a, i) + BigDigit(b, i) + carry
         IN  <<sum % LimbBase>> \o BigAddFrom(a, b, i + 1, sum \div LimbBase)

BigAdd(a, b) == BigAddFrom(a, b, 1, 0)

\* a - b for a >= b
RECURSIVE BigSubFrom(_, _, _, _)
BigSubFrom(a, b, i, borrow) ==
    IF i > Len(a) THEN <<>>
    ELSE LET diff == a[i] - BigDigit(b, i) - borrow
         IN  IF diff < 0
             THEN <<diff + LimbBase>> \o BigSubFrom(a, b, i + 1, 1)
             ELSE <<diff>> \o BigSubFrom(a, b, i + 1, 0)

BigSub(a, b) == BigTrim(BigSubFrom(a, b, 1, 0))

\* a * k for 0 <= k <= 2^15
RECURSIVE BigMulSmallFrom(_, _, _, _)
BigMulSmallFrom(a, k, i, carry) ==
    IF i > Len(a)
    THEN (IF carry = 0 THEN <<>> ELSE <<carry>>)
    ELSE LET product == a[i] * k + carry
         IN  <<product % LimbBase>>
                 \o BigMulSmallFrom(a, k, i + 1, product \div LimbBase)

BigMulSmall(a, k) == BigTrim(BigMulSmallFrom(a, k, 1, 0))

RECURSIVE Zeros(_)
Zeros(n) == IF n = 0 THEN <<>> ELSE <<0>> \o Zeros(n - 1)

\* a * 2^bits
BigShl(a, bits) ==
    IF Len(a) = 0 THEN <<>>
    ELSE Zeros(bits \div LimbBits) \o BigMulSmall(a, Pow2(bits % LimbBits))

RECURSIVE BigMulFrom(_, _, _)
BigMulFrom(a, b, i) ==
    IF i > Len(b) THEN <<>>
    ELSE BigAdd(BigMulSmall(a, b[i]), <<0>> \o BigMulFrom(a, b, i + 1))

BigMul(a, b) == BigTrim(BigMulFrom(a, b, 1))

\* the number of binary digits of a
BigBitLen(a) ==
    IF Len(a) = 0 THEN 0 ELSE LimbBits * (Len(a) - 1) + BitLenOfDigit(a[Len(a)])

\* the binary digit of a that weighs 2^i
BigBit(a, i) ==
    LET limb == i \div LimbBits + 1
    IN  IF limb > Len(a) THEN 0 ELSE (a[limb] \div Pow2(i % LimbBits)) % 2

\* quotient and remainder of a by a divisor below 2^16, from the most
\* significant digit of a down to digit i
RECURSIVE BigDivSmallFrom(_, _, _)
BigDivSmallFrom(a, divisor, i) ==
    IF i > Len(a) THEN [quotient |-> <<>>, remainder |-> 0]
    ELSE LET above == BigDivSmallFrom(a, divisor, i + 1)
             cur   == above.remainder * LimbBase + a[i]
         IN  [quotient  |-> <<cur \div divisor>> \o above.quotient,
              remainder |-> cur % divisor]

\* floor(a / 2^bits)
BigShr(a, bits) ==
    IF bits \div LimbBits >= Len(a) THEN <<>>
    ELSE BigTrim(BigDivSmallFrom(SubSeq(a, bits \div LimbBits + 1, Len(a)),
                                 Pow2(bits % LimbBits), 1).quotient)

\* the largest digit with divisor * digit <= cur, from an estimate that is
\* not below it
RECURSIVE LargestDigit(_, _, _)
LargestDigit(cur, divisor, estimate) ==
    IF BigCmp(BigMulSmall(divisor, estimate), cur) > 0
    THEN LargestDigit(cur, divisor, estimate - 1)
    ELSE estimate

\* floor(cur / divisor) for cur < divisor * 2^15 and a divisor whose leading
\* digit is at least 2^14: the two leading digits of cur over the leading
\* digit of the divisor overestimate it by 2 at most
QuotientDigit(cur, divisor) ==
    IF BigCmp(cur, divisor) < 0 THEN 0
    ELSE LET n == Len(divisor)
             leading == BigDigit(cur, n + 1) * LimbBase + cur[n]
         IN  LargestDigit(cur, divisor, Min(LimbBase - 1, leading \div divisor[n]))

\* one step of the long division: the digit of the quotient for the
\* remainder so far followed by the next digit of a
DivModStep(quotientAbove, cur, divisor, digit) ==
    [quotient  |-> <<digit>> \o quotientAbove,
     remainder |-> BigSub(cur, BigMulSmall(divisor, digit))]

DivModAt(quotientAbove, cur, divisor) ==
    DivModStep(quotientAbove, cur, divisor, QuotientDigit(cur, divisor))

DivModBelow(above, next, divisor) ==
    DivModAt(above.quotient, BigTrim(<<next>> \o above.remainder), divisor)

\* long division of a by such a divisor, from the most significant digit of
\* a down to digit i: the digits above digit i are divided first
RECURSIVE BigDivModFrom(_, _, _)
BigDivModFrom(a, divisor, i) ==
    IF i > Len(a) THEN [quotient |-> <<>>, remainder |-> <<>>]
    ELSE CHOOSE below \in {DivModBelow(above, a[i], divisor) :
                               above \in {BigDivModFrom(a, divisor, i + 1)}} : TRUE

QuotientAndExactness(divided) ==
    [quotient |-> BigTrim(divided.quotient), exact |-> Len(divided.remainder) = 0]

\* the quotient of a by b > 0 and whether the division is exact; both are
\* scaled first so that the leading digit of the divisor is at least 2^14
BigDivModScaled(a, b, scale) ==
    QuotientAndExactness(BigDivModFrom(BigShl(a, scale), BigShl(b, scale), 1))

BigDivMod(a, b) == BigDivModScaled(a, b, LimbBits - BitLenOfDigit(b[Len(b)]))

\* A positive finite double is significand * 2^exponent with a significand of
\* exactly 53 binary digits.  Zero, negative numbers, infinities and NaN are
\* told apart by the operators that use doubles.
Double(significand, exponent) == [significand |-> significand, exponent |-> exponent]

\* rounded * 2^exponent with a significand brought back to 53 binary digits
\* when the rounding carried into a 54th
Renormalised(rounded, exponent) ==
    IF BigBitLen(rounded) > SignificandBits
    THEN Double(BigShr(rounded, 1), exponent + 1)
    ELSE Double(rounded, exponent)

\* kept is rounded up when what was dropped is above one half, or is one half
\* and either more digits follow or kept is odd
RoundedUpOrDown(kept, exponent, aboveHalf, sticky) ==
    Renormalised(IF \/ aboveHalf > 0
                    \/ aboveHalf = 0 /\ (sticky \/ BigBit(kept, 0) = 1)
                 THEN BigAdd(kept, <<1>>) ELSE kept,
                 exponent)

RoundedFrom(n, exponent, sticky, excess, kept) ==
    RoundedUpOrDown(kept, exponent + excess,
                    BigCmp(BigSub(n, BigShl(kept, excess)), BigShl(<<1>>, excess - 1)),
                    sticky)

RoundedBy(n, exponent, sticky, excess) ==
    IF excess <= 0
    THEN Double(BigShl(n, -excess), exponent + excess)
    ELSE RoundedFrom(n, exponent, sticky, excess, BigShr(n, excess))

\* The double nearest to n * 2^exponent, n > 0, or to a number slightly above
\* it when sticky holds (digits of the exact value that n leaves out); a tie
\* goes to the even significand
RoundToDouble(n, exponent, sticky) ==
    RoundedBy(n, exponent, sticky, BigBitLen(n) - SignificandBits)

RoundedQuotient(divided, exponent) ==
    RoundToDouble(divided.quotient, exponent, ~divided.exact)

\* The double of the quotient num / den of two positive integers: a decimal
\* literal, a parsed decimal string, or the division of two integers
DoubleOfQuotient(num, den) ==
    RoundedQuotient(BigDivMod(BigShl(BigOf(num), SignificandBits + 2 + BitLenOfDigit(den)),
                              BigOf(den)),
                    -(SignificandBits + 2 + BitLenOfDigit(den)))

\* x * y, x / y, x - y (for x > y) and x + y as the processor rounds them
DoubleTimes(x, y) ==
    RoundToDouble(BigMul(x.significand, y.significand),
                  x.exponent + y.exponent, FALSE)

DoubleOver(x, y) ==
    RoundedQuotient(BigDivMod(BigShl(x.significand, SignificandBits + 2), y.significand),
                    x.exponent - y.exponent - (SignificandBits + 2))

\* -1, 0 or 1 as x is below, equal to or above y
DoubleCmp(x, y) ==
    IF x.exponent < y.exponent THEN -1
    ELSE IF x.exponent > y.exponent THEN 1
    ELSE BigCmp(x.significand, y.significand)

DoubleMinus(x, y) ==
    LET exponent == Min(x.exponent, y.exponent)
    IN  RoundToDouble(BigSub(BigShl(x.significand, x.exponent - exponent),
                             BigShl(y.significand, y.exponent - exponent)),
                      exponent, FALSE)

DoublePlus(x, y) ==
    LET exponent == Min(x.exponent, y.exponent)
    IN  RoundToDouble(BigAdd(BigShl(x.significand, x.exponent - exponent),
                             BigShl(y.significand, y.exponent - exponent)),
                      exponent, FALSE)

\* Math.floor(x) for a double below 2^30
DoubleFloor(x) ==
    IF x.exponent >= 0 THEN BigToInt(BigShl(x.significand, x.exponent))
    ELSE BigToInt(BigShr(x.significand, -x.exponent))

FixedOf(scaled, exponent) ==
    IF exponent >= 0 THEN BigToInt(BigShl(scaled, exponent))
    ELSE BigToInt(BigShr(scaled, -exponent)) + BigBit(scaled, -exponent - 1)

\* x.toFixed(digits) without its decimal point, for a double below 2^30 /
\* scale with scale = 10^digits: the integer n for which n / scale - x is
\* closest to zero, the larger one if there are two
DoubleToFixed(x, scale) == FixedOf(BigMulSmall(x.significand, scale), x.exponent)

---------------------------------------------------------------------------
(* Personality Scorer: analyzeFontPersonality                              *)

TraitNames ==
    <<"formality", "approachability", "gentleness",
      "sophistication", "traditionality", "playfulness">>

Traits(f, a, g, s, t, p) ==
    [formality |-> f, approachability |-> a, gentleness |-> g,
     sophistication |-> s, traditionality |-> t, playfulness |-> p]

\* lines 370-394: the deltas keyed by style
StyleDelta(fontStyle) ==
    CASE fontStyle = "serif"      -> Traits(25, 0, 0, 20, 25, -10)
      [] fontStyle = "sans-serif" -> Traits(0, 15, 10, 0, -10, 0)
      [] fontStyle = "script"     -> Traits(10, 0, 25, 15, 0, 20)
      [] fontStyle = "decorative" -> Traits(-15, 0, 0, 0, -20, 30)
      [] fontStyle = "monospace"  -> Traits(15, -10, 0, 0, 5, -15)
      [] OTHER                    -> Traits(0, 0, 0, 0, 0, 0)

\* lines 396-406: the deltas keyed by x-height (0.6 em is 60 hundredths)
XHeightDelta(xHeight) ==
    IF isNaN(xHeight) THEN Traits(0, 0, 0, 0, 0, 0)
    ELSE IF Gt(xHeight, 60) THEN Traits(-5, 10, 0, 0, 0, 0)
    ELSE IF Lt(xHeight, 40) THEN Traits(5, 0, 0, 10, 0, 0)
    ELSE Traits(0, 0, 0, 0, 0, 0)

\* lines 408-419
ContrastDelta(contrast) ==
    IF Includes(contrast, "High") THEN Traits(0, -5, 0, 15, 10, 0)
    ELSE IF Includes(contrast, "No") THEN Traits(0, 10, 0, 0, -10, 0)
    ELSE IF Includes(contrast, "Medium") THEN Traits(0, 5, 0, 5, 0, 0)
    ELSE Traits(0, 0, 0, 0, 0, 0)

\* lines 421-438
TerminalDelta(strokeTerminals) ==
    CASE strokeTerminals = "Rounded" -> Traits(0, 10, 15, 0, 0, 5)
      [] strokeTerminals = "Pointed" -> Traits(5, 0, -10, 10, 0, 0)
      [] strokeTerminals = "Square"  -> Traits(10, 0, -5, 0, 5, 0)
      [] strokeTerminals = "Flared"  -> Traits(0, 0, 0, 15, 5, 5)
      [] OTHER                       -> Traits(0, 0, 0, 0, 0, 0)

\* lines 440-456: the probes are lower-case and includes is case-sensitive
ShapeDelta(shape) ==
    IF Includes(shape, "large x-height") THEN Traits(0, 10, 0, 0, -5, 5)
    ELSE IF Includes(shape, "small x-height") THEN Traits(0, 0, 0, 10, 5, -5)
    ELSE IF Includes(shape, "tall ascenders") THEN Traits(5, 0, 5, 5, 0, 0)
    ELSE IF Includes(shape, "deep descenders") THEN Traits(0, 0, 0, 5, 0, 5)
    ELSE Traits(0, 0, 0, 0, 0, 0)

\* v em * 100 * k, for a metric held in hundredths of an em
EmTimes100(v, k) == IF isNaN(v) THEN NaN ELSE WithoutSignOfZero(v) * k

\* lines 460-463 (and 903-908): x*100 + cap*200 + asc*300 + desc*400
MetricsSum(fontMetrics) ==
    Plus(Plus(Plus(EmTimes100(fontMetrics.xHeight, 1),
                   EmTimes100(fontMetrics.capHeight, 2)),
              EmTimes100(fontMetrics.ascender, 3)),
         EmTimes100(fontMetrics.descender, 4))

\* Math.abs(Math.round(sum * k)) % m
RoundAbsMod(sum, k, m) == IF isNaN(sum) THEN NaN ELSE Abs(sum * k) % m

\* line 466
MetricsHash(fontMetrics) == RoundAbsMod(MetricsSum(fontMetrics), 1000, 100)

\* lines 468-473: ((hash + k) % 10) - 5
Jitter(hash, k) == IF isNaN(hash) THEN NaN ELSE ((hash + k) % 10) - 5

JitterDelta(hash) ==
    Traits(Jitter(hash, 0), Jitter(hash, 3), Jitter(hash, 7),
           Jitter(hash, 13), Jitter(hash, 19), Jitter(hash, 23))

\* line 476: Math.max(0, Math.min(100, Math.round(value))); Math.round is the
\* identity on the integers the deltas produce, and NaN passes through all three
clamp(value) == IF isNaN(value) THEN NaN ELSE Max(0, Min(100, value))

\* lines 363-485: the six clamped traits
PersonalityTraits(fontStyle, fontMetrics) ==
    LET sd == StyleDelta(fontStyle)
        xd == XHeightDelta(fontMetrics.xHeight)
        cd == ContrastDelta(fontMetrics.contrast)
        td == TerminalDelta(fontMetrics.strokeTerminals)
        hd == ShapeDelta(fontMetrics.shape)
        jd == JitterDelta(MetricsHash(fontMetrics))
    IN  [t \in {TraitNames[i] : i \in 1..6} |->
            clamp(Plus(50 + sd[t] + xd[t] + cd[t] + td[t] + hd[t], jd[t]))]

\* Array.prototype.sort((a, b) => b[1] - a[1]) is stable: the first entry of the
\* sorted array is the first trait (in key order) holding the maximum, the last
\* entry is the last trait holding the minimum
HighestTrait(personality) ==
    LET i == CHOOSE j \in 1..6 :
                 /\ \A k \in 1..6 : personality[TraitNames[k]] <= personality[TraitNames[j]]
                 /\ \A k \in 1..(j - 1) : personality[TraitNames[k]] < personality[TraitNames[j]]
    IN  TraitNames[i]

LowestTrait(personality) ==
    LET i == CHOOSE j \in 1..6 :
                 /\ \A k \in 1..6 : personality[TraitNames[k]] >= personality[TraitNames[j]]
                 /\ \A k \in (j + 1)..6 : personality[TraitNames[k]] > personality[TraitNames[j]]
    IN  TraitNames[i]

\* lines 510-529
StyleDesc(fontStyle) ==
    CASE fontStyle = "serif"      -> "With its classic serif details, this font "
      [] fontStyle = "sans-serif" -> "This modern sans-serif font "
      [] fontStyle = "script"     -> "With its flowing script characteristics, this font "
      [] fontStyle = "decorative" -> "As a decorative design, this font "
      [] fontStyle = "monospace"  -> "With its uniform character widths, this monospace font "
      [] OTHER                    -> "This font "

\* lines 532-539
ContrastDesc(contrast) ==
    IF Includes(contrast, "High")
    THEN "has dramatic contrast between thick and thin strokes, which "
    ELSE IF Includes(contrast, "No")
    THEN "maintains even stroke weight throughout, which "
    ELSE IF Includes(contrast, "Medium")
    THEN "shows moderate contrast in its strokes, which "
    ELSE ""

\* lines 542-551
TerminalDesc(strokeTerminals) ==
    CASE strokeTerminals = "Rounded" -> "features soft, rounded terminals that "
      [] strokeTerminals = "Pointed" -> "has sharp, pointed terminals that "
      [] strokeTerminals = "Square"  -> "uses solid, square terminals that "
      [] strokeTerminals = "Flared"  -> "incorporates elegantly flared terminals that "
      [] OTHER                       -> ""

\* lines 568-579: the fallback keyed by shape
ShapeTraitDesc(shape) ==
    IF Includes(shape, "large x-height")
    THEN "offers excellent readability with its large x-height and open forms"
    ELSE IF Includes(shape, "small x-height")
    THEN "creates an elegant appearance with its modest x-height and refined proportions"
    ELSE IF Includes(shape, "tall ascenders")
    THEN "features distinctive tall ascenders that create vertical rhythm and elegance"
    ELSE IF Includes(shape, "deep descenders")
    THEN "uses pronounced descenders that add character and distinctiveness"
    ELSE "balances various typographic qualities for versatile use"

\* lines 554-580
HighTraitDesc(personality, fontMetrics) ==
    LET h == HighestTrait(personality)
    IN  IF Gt(personality[h], 70)
        THEN CASE h = "formality" ->
                    "appears quite formal and structured, suitable for professional contexts"
               [] h = "approachability" ->
                    "feels friendly and approachable, putting readers at ease"
               [] h = "gentleness" ->
                    "conveys a gentle and soft impression with balanced forms"
               [] h = "sophistication" ->
                    "exudes sophistication and elegance through its refined proportions"
               [] h = "traditionality" ->
                    "embraces traditional typographic principles with a classical feel"
               [] h = "playfulness" ->
                    "has a playful and energetic character that adds personality to text"
        ELSE ShapeTraitDesc(fontMetrics.shape)

\* lines 583-598
LowTraitDesc(personality) ==
    LET l == LowestTrait(personality)
    IN  IF Lt(personality[l], 30)
        THEN CASE l = "formality" ->
                    " while maintaining a relaxed, casual atmosphere"
               [] l = "approachability" ->
                    " while projecting a sense of authority and distance"
               [] l = "gentleness" ->
                    " with strong, confident strokes that command attention"
               [] l = "sophistication" ->
                    " with a straightforward, functional approach to typography"
               [] l = "traditionality" ->
                    " with a contemporary aesthetic that breaks from convention"
               [] l = "playfulness" ->
                    " with a serious tone that prioritizes clarity and professionalism"
        ELSE ""

\* lines 603-608: random is the outcome of Math.random() > 0.5
MiddleDesc(fontMetrics, random) ==
    IF random /\ ContrastDesc(fontMetrics.contrast) # ""
    THEN ContrastDesc(fontMetrics.contrast)
    ELSE IF TerminalDesc(fontMetrics.strokeTerminals) # ""
    THEN TerminalDesc(fontMetrics.strokeTerminals)
    ELSE ""

\* line 613: description.replace(/\s\s+/g, ' '): of every run of white space
\* only the first character stays (the only white space in the clauses is the
\* space character); on the characters lo..hi of s, halved
RECURSIVE CollapseRange(_, _, _)
CollapseRange(s, lo, hi) ==
    IF lo > hi THEN ""
    ELSE IF lo = hi
    THEN IF lo > 1 /\ SubSeq(s, lo, lo) = " " /\ SubSeq(s, lo - 1, lo - 1) = " "
         THEN ""
         ELSE SubSeq(s, lo, lo)
    ELSE LET mid == (lo + hi) \div 2
         IN  CollapseRange(s, lo, mid) \o CollapseRange(s, mid + 1, hi)

CollapseSpaces(s) == CollapseRange(s, 1, Len(s))

\* lines 503-614
generateCustomEmotionalDescription(personality, fontStyle, fontMetrics, random) ==
    CollapseSpaces(StyleDesc(fontStyle) \o MiddleDesc(fontMetrics, random)
                   \o HighTraitDesc(personality, fontMetrics)
                   \o LowTraitDesc(personality) \o ".")

\* The mutant of analyzeFontPersonality: the variation added to the traits is
\* drawn at random instead of from the metrics
analyzeFontPersonalityRandomJitter(fontStyle, fontMetrics, random) ==
    LET personalityTraits == PersonalityTraits(fontStyle, fontMetrics)
        drawn == IF random THEN 3 ELSE -3
    IN  [formality        |-> clamp(Plus(personalityTraits.formality, drawn)),
         approachability  |-> personalityTraits.approachability,
         gentleness       |-> personalityTraits.gentleness,
         sophistication   |-> personalityTraits.sophistication,
         traditionality   |-> personalityTraits.traditionality,
         playfulness      |-> personalityTraits.playfulness,
         emotionalDescription |->
             generateCustomEmotionalDescription(personalityTraits, fontStyle,
                                                fontMetrics, random)]

\* lines 361-494
analyzeFontPersonality(fontStyle, fontMetrics, random) ==
    LET personalityTraits == PersonalityTraits(fontStyle, fontMetrics)
    IN  [formality        |-> personalityTraits.formality,
         approachability  |-> personalityTraits.approachability,
         gentleness       |-> personalityTraits.gentleness,
         sophistication   |-> personalityTraits.sophistication,
         traditionality   |-> personalityTraits.traditionality,
         playfulness      |-> personalityTraits.playfulness,
         emotionalDescription |->
             generateCustomEmotionalDescription(personalityTraits, fontStyle,
                                                fontMetrics, random)]

---------------------------------------------------------------------------
(* Recommendation Generator: generateRecommendations                       *)

\* lines 721-811: the lists seeded by style
StyleRecommended(fontStyle) ==
    CASE fontStyle = "serif" ->
            <<"Business documents and presentations", "Book covers and interior text",
              "Academic publications">>
      [] fontStyle = "sans-serif" ->
            <<"Website and mobile interfaces", "Corporate branding", "Information displays">>
      [] fontStyle = "script" ->
            <<"Wedding invitations", "Certificates", "Luxury branding">>
      [] fontStyle = "decorative" ->
            <<"Headlines and titles", "Posters and banners", "Logo design">>
      [] fontStyle = "monospace" ->
            <<"Code displays", "Technical documentation", "Tabular data">>
      [] OTHER -> <<>>

StyleNotRecommended(fontStyle) ==
    CASE fontStyle = "serif" ->
            <<"Casual social media content", "Mobile interfaces requiring compact text",
              "Display text at very small sizes">>
      [] fontStyle = "sans-serif" ->
            <<"Traditional formal documents", "Luxury brand materials", "Classical literature">>
      [] fontStyle = "script" ->
            <<"Long-form body text", "User interfaces", "Technical documentation">>
      [] fontStyle = "decorative" ->
            <<"Body text", "Legal documents", "Technical content">>
      [] fontStyle = "monospace" ->
            <<"Long-form reading", "Elegant branding", "Flowing text layouts">>
      [] OTHER -> <<>>

StylePairings(fontStyle) ==
    CASE fontStyle = "serif" ->
            <<"Open Sans (for body text)", "Roboto (for UI elements)",
              "Lato (for versatile use alongside)">>
      [] fontStyle = "sans-serif" ->
            <<"Merriweather (for headings)", "Georgia (for body text in print)",
              "Playfair Display (for elegant headings)">>
      [] fontStyle = "script" ->
            <<"Montserrat (for body text)", "Raleway (for subheadings)",
              "Open Sans (for UI elements)">>
      [] fontStyle = "decorative" ->
            <<"Roboto (for body text)", "Lato (for secondary text)",
              "Open Sans (for UI elements)">>
      [] fontStyle = "monospace" ->
            <<"Open Sans (for headings)", "Roboto (for UI elements)",
              "Source Sans Pro (for body text)">>
      [] OTHER -> <<>>

\* Array.prototype.includes
Contains(list, e) == \E i \in 1..Len(list) : list[i] = e

\* lines 814-825; soFar is notRecommendedUses as pushed so far
XHeightRecommended(xHeight) ==
    IF Gt(xHeight, 60)
    THEN <<"Small text sizes", "Mobile applications", "Accessibility-focused designs">>
    ELSE IF Lt(xHeight, 40)
    THEN <<"Display typography", "Formal invitations", "Luxury branding">>
    ELSE <<>>

XHeightNotRecommended(xHeight, soFar) ==
    IF Gt(xHeight, 60)
    THEN IF ~Contains(soFar, "Traditional formal documents")
         THEN <<"Traditional formal documents">>
         ELSE <<>>
    ELSE IF Lt(xHeight, 40)
    THEN <<"User interfaces with limited space", "Body text below 12pt">>
    ELSE <<>>

\* lines 828-834
ContrastRecommended(contrast) ==
    IF Includes(contrast, "High")
    THEN <<"Magazine layouts", "Fashion publications", "Luxury product packaging">>
    ELSE IF Includes(contrast, "No")
    THEN <<"Digital interfaces", "Wayfinding signage", "Text for small screens">>
    ELSE <<>>

ContrastNotRecommended(contrast) ==
    IF Includes(contrast, "High")
    THEN <<"Small text on screens", "Low-resolution displays">>
    ELSE IF Includes(contrast, "No")
    THEN <<"Traditional book typography", "Formal certificates">>
    ELSE <<>>

\* lines 837-843
TerminalRecommended(strokeTerminals) ==
    CASE strokeTerminals = "Rounded" ->
            <<"Children's content", "Friendly communications", "Educational materials">>
      [] strokeTerminals = "Pointed" ->
            <<"Fashion branding", "Luxury products", "Editorial design">>
      [] strokeTerminals = "Square" ->
            <<"Corporate communications", "Technical documentation",
              "Informational displays">>
      [] OTHER -> <<>>

\* lines 846-854
ShapeRecommended(shape) ==
    IF Includes(shape, "large x-height")
    THEN <<"User interfaces", "Mobile applications", "Wayfinding signage">>
    ELSE IF Includes(shape, "tall ascenders")
    THEN <<"Magazine headlines", "Book titles", "Elegant branding">>
    ELSE IF Includes(shape, "deep descenders")
    THEN <<"Editorial design", "Pull quotes", "Distinctive headlines">>
    ELSE <<>>

ShapeNotRecommended(shape) ==
    IF Includes(shape, "large x-height") THEN <<>>
    ELSE IF Includes(shape, "tall ascenders")
    THEN <<"Tight line spacing layouts", "Mobile UI with space constraints">>
    ELSE IF Includes(shape, "deep descenders")
    THEN <<"Designs with minimal line spacing", "Compact layouts">>
    ELSE <<>>

\* lines 857-887
PersonalityRecommended(fontPersonality) ==
    (IF Gt(fontPersonality.formality, 70)
     THEN <<"Formal business communications", "Legal documents", "Government publications">>
     ELSE IF Lt(fontPersonality.formality, 30)
     THEN <<"Casual blogs", "Social media content", "Friendly marketing">>
     ELSE <<>>)
    \o
    (IF Gt(fontPersonality.playfulness, 70)
     THEN <<"Children's content", "Entertainment brands", "Casual social media">>
     ELSE IF Lt(fontPersonality.playfulness, 30)
     THEN <<"Financial reports", "Technical documentation", "Research papers">>
     ELSE <<>>)
    \o
    (IF Gt(fontPersonality.sophistication, 70)
     THEN <<"Luxury branding", "High-end publications", "Art and culture magazines">>
     ELSE IF Lt(fontPersonality.sophistication, 30)
     THEN <<"Technical manuals", "Utilitarian designs", "Information-focused content">>
     ELSE <<>>)
    \o
    (IF Gt(fontPersonality.approachability, 70)
     THEN <<"Educational materials", "Healthcare communications", "Customer-facing content">>
     ELSE IF Lt(fontPersonality.approachability, 30)
     THEN <<"Security notices", "Warning messages", "Authoritative communications">>
     ELSE <<>>)

PersonalityNotRecommended(fontPersonality) ==
    (IF Gt(fontPersonality.formality, 70)
     THEN <<"Casual social media", "Children's books", "Friendly marketing materials">>
     ELSE IF Lt(fontPersonality.formality, 30)
     THEN <<"Legal documents", "Academic publications", "Formal business reports">>
     ELSE <<>>)
    \o
    (IF Gt(fontPersonality.playfulness, 70)
     THEN <<"Legal documents", "Financial reports", "Medical publications">>
     ELSE IF Lt(fontPersonality.playfulness, 30)
     THEN <<"Children's content", "Entertainment brands", "Casual blogging">>
     ELSE <<>>)
    \o
    (IF Gt(fontPersonality.sophistication, 70)
     THEN <<"Technical manuals", "Casual communications", "Budget-friendly marketing">>
     ELSE IF Lt(fontPersonality.sophistication, 30)
     THEN <<"Luxury branding", "Fashion magazines", "Premium marketing">>
     ELSE <<>>)
    \o
    (IF Gt(fontPersonality.approachability, 70)
     THEN <<"High-security communications", "Legal warnings", "Authoritative messaging">>
     ELSE IF Lt(fontPersonality.approachability, 30)
     THEN <<"Education for young children", "Community outreach", "Friendly marketing">>
     ELSE <<>>)

\* lines 891-899
PersonalityPairings(fontPersonality) ==
    IF Gt(fontPersonality.sophistication, 65)
    THEN <<"Baskerville (for elegant body text)", "Didot (for high-contrast headings)">>
    ELSE IF Gt(fontPersonality.approachability, 65)
    THEN <<"Nunito (for friendly headlines)", "Quicksand (for approachable UI elements)">>
    ELSE IF Gt(fontPersonality.formality, 65)
    THEN <<"Garamond (for traditional text)", "Bodoni (for formal headings)">>
    ELSE IF Gt(fontPersonality.playfulness, 65)
    THEN <<"Comic Neue (for casual text)", "Marker Felt (for playful highlights)">>
    ELSE <<>>

\* lines 911-918
uniqueRecommendations ==
    <<"Editorial design", "Branding and identity", "User experience design",
      "Product packaging", "Signage systems", "Data visualization",
      "Email templates", "Social media graphics", "Presentation slides",
      "App interfaces", "Video subtitles", "Book covers",
      "Event materials", "Restaurant menus", "Marketing collateral",
      "Annual reports", "Digital advertisements", "Print brochures">>

\* lines 920-926
uniqueNonRecommendations ==
    <<"Emergency signage", "Medical instructions", "Financial disclaimers",
      "Legal contracts", "Academic papers", "Technical manuals",
      "Educational flashcards", "Children's books", "Comic strips",
      "Navigation systems", "Code editors", "Stock tickers",
      "Data tables", "Mathematical formulas", "Bibliography listings">>

\* pool[index] of a zero-based array; pool[NaN] is undefined
At(pool, index) == IF isNaN(index) THEN Undefined ELSE pool[index + 1]

\* lines 929-948: the one or two entries picked from a pool; NaN !== NaN holds,
\* so a NaN fingerprint pushes undefined twice
FlavorPicks(pool, fingerprint, k1, k2) ==
    LET i1 == RoundAbsMod(fingerprint, k1, Len(pool))
        i2 == RoundAbsMod(fingerprint, k2, Len(pool))
    IN  IF isNaN(i1) \/ isNaN(i2) \/ i1 # i2
        THEN <<At(pool, i1), At(pool, i2)>>
        ELSE <<At(pool, i1)>>

\* [...new Set(list)]: the first occurrence of each entry, in insertion order
RECURSIVE Dedupe(_)
Dedupe(list) ==
    IF Len(list) = 0 THEN <<>>
    ELSE LET front == Dedupe(SubSeq(list, 1, Len(list) - 1))
             last  == list[Len(list)]
         IN  IF Contains(front, last) THEN front ELSE Append(front, last)

\* Array.prototype.slice(0, n)
Slice(list, n) == SubSeq(list, 1, Min(n, Len(list)))

\* The mutant of DedupeAndCap: the list is truncated before it is deduplicated
CapThenDedupe(list, n) == Dedupe(Slice(list, n))

\* lines 951-953
DedupeAndCap(list, n) == Slice(Dedupe(list), n)

\* lines 716-948: the lists as pushed, before lines 950-953
RecommendedPushed(fontStyle, fontMetrics, fontPersonality) ==
    StyleRecommended(fontStyle)
    \o XHeightRecommended(fontMetrics.xHeight)
    \o ContrastRecommended(fontMetrics.contrast)
    \o TerminalRecommended(fontMetrics.strokeTerminals)
    \o ShapeRecommended(fontMetrics.shape)
    \o PersonalityRecommended(fontPersonality)
    \o FlavorPicks(uniqueRecommendations, MetricsSum(fontMetrics), 100, 200)

NotRecommendedPushed(fontStyle, fontMetrics, fontPersonality) ==
    StyleNotRecommended(fontStyle)
    \o XHeightNotRecommended(fontMetrics.xHeight, StyleNotRecommended(fontStyle))
    \o ContrastNotRecommended(fontMetrics.contrast)
    \o ShapeNotRecommended(fontMetrics.shape)
    \o PersonalityNotRecommended(fontPersonality)
    \o FlavorPicks(uniqueNonRecommendations, MetricsSum(fontMetrics), 300, 400)

PairingsPushed(fontStyle, fontPersonality) ==
    StylePairings(fontStyle) \o PersonalityPairings(fontPersonality)

\* lines 715-960
generateRecommendations(fontStyle, fontMetrics, fontPersonality) ==
    [recommendedUses    |->
         DedupeAndCap(RecommendedPushed(fontStyle, fontMetrics, fontPersonality), 6),
     notRecommendedUses |->
         DedupeAndCap(NotRecommendedPushed(fontStyle, fontMetrics, fontPersonality), 6),
     fontPairings       |->
         DedupeAndCap(PairingsPushed(fontStyle, fontPersonality), 4)]

---------------------------------------------------------------------------
(* Comparator: calculateCompatibilityScore                                 *)

\* line 1421: (larger - smaller) / larger < bound for the doubles of two
\* positive parsed em strings and of the literal bound
RelativeDiffOfDoublesBelow(smaller, larger, bound) ==
    DoubleCmp(DoubleOver(DoubleMinus(larger, smaller), larger), bound) < 0

\* line 1421-1426: Math.abs(x1 - x2) / Math.max(x1, x2) < tenths / 10 for two
\* parsed em strings.  A negative maximum makes the quotient negative or -0,
\* which is below every bound.  A maximum of zero gives NaN when both are
\* zero, and otherwise an infinity with the sign of the zero: Math.max
\* answers -0 only if no argument is +0.  Where the exact quotient meets the
\* bound the doubles of the two parsed strings are subtracted, divided and
\* compared (0.05 / 0.5 is below 0.1); anywhere else the roundings cannot
\* change the order.
RelativeDiffBelow(x1, x2, tenths) ==
    LET v1   == WithoutSignOfZero(x1)
        v2   == WithoutSignOfZero(x2)
        diff == Abs(v1 - v2)
        max  == Max(v1, v2)
        min  == Min(v1, v2)
    IN  IF max < 0 THEN TRUE
        ELSE IF max = 0
        THEN diff # 0 /\ (x1 = NegativeZero \/ x2 = NegativeZero)
        ELSE IF 10 * diff = tenths * max /\ min > 0
        THEN RelativeDiffOfDoublesBelow(DoubleOfQuotient(min, 100),
                                        DoubleOfQuotient(max, 100),
                                        DoubleOfQuotient(tenths, 10))
        ELSE 10 * diff < tenths * max

\* lines 1418-1429
XHeightBonus(xHeight1, xHeight2) ==
    IF ~isNaN(xHeight1) /\ ~isNaN(xHeight2)
    THEN IF RelativeDiffBelow(xHeight1, xHeight2, 1) THEN 15
         ELSE IF RelativeDiffBelow(xHeight1, xHeight2, 2) THEN 10
         ELSE IF RelativeDiffBelow(xHeight1, xHeight2, 3) THEN 5
         ELSE 0
    ELSE 0

\* line 1432: Math.abs(f1 - f2)
FormalityDiff(font1, font2) ==
    IF isNaN(font1.personality.formality) \/ isNaN(font2.personality.formality)
    THEN NaN
    ELSE Abs(font1.personality.formality - font2.personality.formality)

\* The mutant of calculateCompatibilityScore: the x-height bands add up and the
\* final clamp is missing
CumulativeUnclampedScore(font1, font2) ==
    50
    + (IF font1.format # font2.format THEN 10 ELSE 0)
    + (IF font1.weight # font2.weight THEN 10 ELSE 0)
    + (IF isNaN(font1.metrics.xHeight) \/ isNaN(font2.metrics.xHeight) THEN 0
       ELSE (IF RelativeDiffBelow(font1.metrics.xHeight, font2.metrics.xHeight, 1)
             THEN 15 ELSE 0)
          + (IF RelativeDiffBelow(font1.metrics.xHeight, font2.metrics.xHeight, 2)
             THEN 10 ELSE 0)
          + (IF RelativeDiffBelow(font1.metrics.xHeight, font2.metrics.xHeight, 3)
             THEN 5 ELSE 0))
    + (IF Gt(FormalityDiff(font1, font2), 30) THEN 10 ELSE 0)

\* A mutant of calculateCompatibilityScore: the x-height difference is taken
\* relative to the first font's x-height instead of the larger of the two
ScoreRelativeToFirst(font1, font2) ==
    LET x1   == font1.metrics.xHeight
        x2   == font2.metrics.xHeight
        diff == Abs(x1 - x2)
        bonus == IF isNaN(x1) \/ isNaN(x2) \/ x1 <= 0 THEN 0
                 ELSE IF 10 * diff < x1 THEN 15
                 ELSE IF 10 * diff < 2 * x1 THEN 10
                 ELSE IF 10 * diff < 3 * x1 THEN 5
                 ELSE 0
        score == 50
                 + (IF font1.format # font2.format THEN 10 ELSE 0)
                 + (IF font1.weight # font2.weight THEN 10 ELSE 0)
                 + bonus
                 + (IF Gt(FormalityDiff(font1, font2), 30) THEN 10 ELSE 0)
    IN  Max(0, Min(100, score))

\* A mutant of calculateCompatibilityScore: the base score is 60
ScoreFromBaseSixty(font1, font2) ==
    LET score == 60
                 + (IF font1.format # font2.format THEN 10 ELSE 0)
                 + (IF font1.weight # font2.weight THEN 10 ELSE 0)
                 + XHeightBonus(font1.metrics.xHeight, font2.metrics.xHeight)
                 + (IF Gt(FormalityDiff(font1, font2), 30) THEN 10 ELSE 0)
    IN  Max(0, Min(100, score))

\* lines 1403-1439
calculateCompatibilityScore(font1, font2) ==
    LET score == 50
                 + (IF font1.format # font2.format THEN 10 ELSE 0)
                 + (IF font1.weight # font2.weight THEN 10 ELSE 0)
                 + XHeightBonus(font1.metrics.xHeight, font2.metrics.xHeight)
                 + (IF Gt(FormalityDiff(font1, font2), 30) THEN 10 ELSE 0)
    IN  Max(0, Min(100, score))

---------------------------------------------------------------------------
(* The parsed font, and the classifiers that read its name and OS/2 tables *)

\* A parsed font is a record.  font.names maps a name id (fontFamily,
\* fullName, postScriptName, fontSubfamily, version, copyright, manufacturer)
\* to a record of translations; a name id the font lacks is missing from
\* DOMAIN font.names, and a name without an English string has no "en" key.
\* font.tables holds the tables the font has: "os2", "post" and "hhea" are
\* missing from its DOMAIN when the font has no such table, and a field the
\* table lacks is missing from the table's DOMAIN.
EmptyRecord == [k \in {} |-> 0]

\* A record with the one field key when present, no field otherwise.
Opt(key, present, v) == IF present THEN [k \in {key} |-> v] ELSE EmptyRecord

\* The outcome of a call: a returned value or a thrown error.
Returned(v) == [threw |-> FALSE, value |-> v]

Thrown(msg) == [threw |-> TRUE, message |-> msg]

\* lines 101-103: font.names.X ? font.names.X.en.toLowerCase() : ''  throws
\* a TypeError when the name is there without an English string
NameThrows(names, key) == key \in DOMAIN names /\ "en" \notin DOMAIN names[key]

LowerName(names, key) ==
    IF key \in DOMAIN names THEN toLowerCase(names[key].en) ELSE ""

TypeErrorMessage == "Cannot read properties of undefined (reading 'toLowerCase')"

\* rec.key is truthy: a number that is there and is not 0
Truthy(rec, key) == key \in DOMAIN rec /\ rec[key] # 0

\* lines 109-130: the label the names give, "" when no rule fires
NameStyle(combinedName) ==
    IF Includes(combinedName, "sans") /\ ~Includes(combinedName, "serif")
    THEN "sans-serif"
    ELSE IF Includes(combinedName, "serif") /\ ~Includes(combinedName, "sans")
    THEN "serif"
    ELSE IF \/ Includes(combinedName, "script")
            \/ Includes(combinedName, "handwriting")
            \/ Includes(combinedName, "cursive")
            \/ Includes(combinedName, "brush")
            \/ Includes(combinedName, "calligraph")
    THEN "script"
    ELSE IF \/ Includes(combinedName, "deco")
            \/ Includes(combinedName, "display")
            \/ Includes(combinedName, "ornament")
            \/ Includes(combinedName, "fancy")
            \/ Includes(combinedName, "comic")
            \/ Includes(combinedName, "grunge")
    THEN "decorative"
    ELSE ""

\* panose[i] of the code: the tuple is indexed from 0 there
PanoseByte(panose, i) == panose[i + 1]

\* lines 140-152: family type, then serif style; "" when nothing is decided
PanoseFamilyStyle(panose) ==
    IF PanoseByte(panose, 0) = 3 THEN "script"
    ELSE IF PanoseByte(panose, 0) = 4 \/ PanoseByte(panose, 0) = 5 THEN "decorative"
    ELSE IF PanoseByte(panose, 0) = 2
    THEN IF PanoseByte(panose, 1) = 11 \/ PanoseByte(panose, 1) = 0 THEN "sans-serif"
         ELSE IF PanoseByte(panose, 1) >= 2 /\ PanoseByte(panose, 1) <= 10 THEN "serif"
         ELSE ""
    ELSE ""

\* lines 161-174: (sFamilyClass >> 8) & 0xFF
FamilyClassStyle(os2) ==
    IF Truthy(os2, "sFamilyClass")
    THEN LET classID == (os2.sFamilyClass \div 256) % 256
         IN  IF classID \in {2, 3, 4, 5} THEN "serif"
             ELSE IF classID = 8 THEN "sans-serif"
             ELSE IF classID \in {9, 10} THEN "script"
             ELSE IF classID = 12 THEN "decorative"
             ELSE ""
    ELSE ""

\* The mutant of OS2Style: the monospace proportion is tested before the
\* family type
OS2StyleMonospaceFirst(os2) ==
    IF "panose" \in DOMAIN os2 /\ PanoseByte(os2.panose, 3) = 9 THEN "monospace"
    ELSE IF "panose" \in DOMAIN os2 /\ PanoseFamilyStyle(os2.panose) # ""
    THEN PanoseFamilyStyle(os2.panose)
    ELSE FamilyClassStyle(os2)

\* lines 133-175
OS2Style(os2) ==
    IF "panose" \in DOMAIN os2 /\ PanoseFamilyStyle(os2.panose) # ""
    THEN PanoseFamilyStyle(os2.panose)
    ELSE IF "panose" \in DOMAIN os2 /\ PanoseByte(os2.panose, 3) = 9 THEN "monospace"
    ELSE FamilyClassStyle(os2)

\* line 106
StyleCombinedName(names) ==
    LowerName(names, "fontFamily") \o " " \o LowerName(names, "fullName")
        \o " " \o LowerName(names, "postScriptName")

\* lines 99-184
determineFontStyle(font) ==
    IF \/ NameThrows(font.names, "fontFamily")
       \/ NameThrows(font.names, "fullName")
       \/ NameThrows(font.names, "postScriptName")
    THEN Thrown(TypeErrorMessage)
    ELSE LET byName == NameStyle(StyleCombinedName(font.names))
             byOS2  == IF "os2" \in DOMAIN font.tables
                       THEN OS2Style(font.tables.os2) ELSE ""
         IN  Returned(IF byName # "" THEN byName
                      ELSE IF byOS2 # "" THEN byOS2
                      ELSE IF "post" \in DOMAIN font.tables
                              /\ Truthy(font.tables.post, "isFixedPitch")
                      THEN "monospace"
                      ELSE "sans-serif")

\* The mutant of WeightLabel: the class boundaries are exclusive
WeightLabelExclusive(weightClass) ==
    IF weightClass < 100 THEN "Thin (100)"
    ELSE IF weightClass < 200 THEN "Extra Light (200)"
    ELSE IF weightClass < 300 THEN "Light (300)"
    ELSE IF weightClass < 400 THEN "Regular (400)"
    ELSE IF weightClass < 500 THEN "Medium (500)"
    ELSE IF weightClass < 600 THEN "Semi Bold (600)"
    ELSE IF weightClass < 700 THEN "Bold (700)"
    ELSE IF weightClass < 800 THEN "Extra Bold (800)"
    ELSE IF weightClass < 900 THEN "Black (900)"
    ELSE "Heavy (" \o ToString(weightClass) \o ")"

\* lines 1142-1151
WeightLabel(weightClass) ==
    IF weightClass <= 100 THEN "Thin (100)"
    ELSE IF weightClass <= 200 THEN "Extra Light (200)"
    ELSE IF weightClass <= 300 THEN "Light (300)"
    ELSE IF weightClass <= 400 THEN "Regular (400)"
    ELSE IF weightClass <= 500 THEN "Medium (500)"
    ELSE IF weightClass <= 600 THEN "Semi Bold (600)"
    ELSE IF weightClass <= 700 THEN "Bold (700)"
    ELSE IF weightClass <= 800 THEN "Extra Bold (800)"
    ELSE IF weightClass <= 900 THEN "Black (900)"
    ELSE "Heavy (" \o ToString(weightClass) \o ")"

\* lines 1161-1172
NameWeight(combinedName) ==
    IF Includes(combinedName, "thin") THEN "Thin (100)"
    ELSE IF Includes(combinedName, "extra light") \/ Includes(combinedName, "ultralight")
    THEN "Extra Light (200)"
    ELSE IF Includes(combinedName, "light") THEN "Light (300)"
    ELSE IF Includes(combinedName, "regular") \/ Includes(combinedName, "normal")
    THEN "Regular (400)"
    ELSE IF Includes(combinedName, "medium") THEN "Medium (500)"
    ELSE IF Includes(combinedName, "semibold") \/ Includes(combinedName, "demibold")
    THEN "Semi Bold (600)"
    ELSE IF /\ Includes(combinedName, "bold")
            /\ ~Includes(combinedName, "extra")
            /\ ~Includes(combinedName, "ultra")
    THEN "Bold (700)"
    ELSE IF Includes(combinedName, "extra bold") \/ Includes(combinedName, "ultrabold")
    THEN "Extra Bold (800)"
    ELSE IF Includes(combinedName, "black") \/ Includes(combinedName, "heavy")
    THEN "Black (900)"
    ELSE "Regular (400)"

\* lines 1155-1159 and 1203-1207
WeightWidthNameThrows(names) ==
    \/ NameThrows(names, "fullName")
    \/ NameThrows(names, "fontFamily")
    \/ NameThrows(names, "fontSubfamily")

WeightWidthCombinedName(names) ==
    LowerName(names, "fullName") \o " " \o LowerName(names, "fontFamily")
        \o " " \o LowerName(names, "fontSubfamily")

\* lines 1136-1177; the catch block answers a thrown TypeError with Regular
determineFontWeight(font) ==
    IF "os2" \in DOMAIN font.tables /\ Truthy(font.tables.os2, "usWeightClass")
    THEN WeightLabel(font.tables.os2.usWeightClass)
    ELSE IF WeightWidthNameThrows(font.names) THEN "Regular (400)"
    ELSE NameWeight(WeightWidthCombinedName(font.names))

\* The mutant of WidthLabel: a class above 9 takes the widest label
WidthLabelSaturating(widthClass) ==
    IF widthClass = 1 THEN "Ultra Condensed (1)"
    ELSE IF widthClass = 2 THEN "Extra Condensed (2)"
    ELSE IF widthClass = 3 THEN "Condensed (3)"
    ELSE IF widthClass = 4 THEN "Semi Condensed (4)"
    ELSE IF widthClass = 5 THEN "Normal (5)"
    ELSE IF widthClass = 6 THEN "Semi Expanded (6)"
    ELSE IF widthClass = 7 THEN "Expanded (7)"
    ELSE IF widthClass = 8 THEN "Extra Expanded (8)"
    ELSE "Ultra Expanded (9)"

\* lines 1190-1199
WidthLabel(widthClass) ==
    IF widthClass = 1 THEN "Ultra Condensed (1)"
    ELSE IF widthClass = 2 THEN "Extra Condensed (2)"
    ELSE IF widthClass = 3 THEN "Condensed (3)"
    ELSE IF widthClass = 4 THEN "Semi Condensed (4)"
    ELSE IF widthClass = 5 THEN "Normal (5)"
    ELSE IF widthClass = 6 THEN "Semi Expanded (6)"
    ELSE IF widthClass = 7 THEN "Expanded (7)"
    ELSE IF widthClass = 8 THEN "Extra Expanded (8)"
    ELSE IF widthClass = 9 THEN "Ultra Expanded (9)"
    ELSE "Custom (" \o ToString(widthClass) \o ")"

\* lines 1209-1219
NameWidth(combinedName) ==
    IF Includes(combinedName, "ultra condensed") THEN "Ultra Condensed (1)"
    ELSE IF Includes(combinedName, "extra condensed") THEN "Extra Condensed (2)"
    ELSE IF Includes(combinedName, "condensed") /\ ~Includes(combinedName, "semi")
    THEN "Condensed (3)"
    ELSE IF Includes(combinedName, "semi condensed") THEN "Semi Condensed (4)"
    ELSE IF Includes(combinedName, "semi expanded") THEN "Semi Expanded (6)"
    ELSE IF /\ Includes(combinedName, "expanded")
            /\ ~Includes(combinedName, "semi")
            /\ ~Includes(combinedName, "extra")
            /\ ~Includes(combinedName, "ultra")
    THEN "Expanded (7)"
    ELSE IF Includes(combinedName, "extra expanded") THEN "Extra Expanded (8)"
    ELSE IF Includes(combinedName, "ultra expanded") THEN "Ultra Expanded (9)"
    ELSE "Normal (5)"

\* lines 1184-1224; the catch block answers a thrown TypeError with Normal
determineFontWidth(font) ==
    IF "os2" \in DOMAIN font.tables /\ Truthy(font.tables.os2, "usWidthClass")
    THEN WidthLabel(font.tables.os2.usWidthClass)
    ELSE IF WeightWidthNameThrows(font.names) THEN "Normal (5)"
    ELSE NameWidth(WeightWidthCombinedName(font.names))

---------------------------------------------------------------------------
(* Character-set surveyor: analyzeCharacterSet                             *)

\* font.encoding describes the glyph lookup of the parsed font by intervals of
\* code points: those mapped to a glyph of their own, and those for which the
\* lookup throws.  font.advance holds the advance widths: of the ten digits,
\* of every other mapped glyph, and of the placeholder glyph ".notdef" that
\* the lookup answers for an unmapped code point.  font.glyphs.length is the
\* number of glyphs.  A character is the code point the lookup uses, the
\* first one of the string: '--' is looked up as '-', '...' as '.'.
InIntervals(code, intervals) ==
    \E iv \in intervals : iv[1] <= code /\ code <= iv[2]

Digits == <<48, 49, 50, 51, 52, 53, 54, 55, 56, 57>>

\* line 998: '$', the euro, pound, yen and cent signs
CurrencySymbols == <<36, 8364, 163, 165, 162>>

\* line 1001: . , ; : ! ? " ' ( ) [ ] { }
BasicPunctuation == <<46, 44, 59, 58, 33, 63, 34, 39, 40, 41, 91, 93, 123, 125>>

\* line 1002: '-', '--', '...', '<', '>', '"', '"', "'", "'"
ExtendedPunctuation == <<45, 45, 46, 60, 62, 34, 34, 39, 39>>

AdvanceWidth(font, code) ==
    IF code >= 48 /\ code <= 57 THEN font.advance.digits[code - 47]
    ELSE font.advance.other

\* font.charToGlyph(char)
charToGlyph(font, code) ==
    IF InIntervals(code, font.encoding.throwing)
    THEN Thrown("glyph lookup failed")
    ELSE IF InIntervals(code, font.encoding.mapped)
    THEN Returned([name |-> "glyph" \o ToString(code),
                   advanceWidth |-> AdvanceWidth(font, code)])
    ELSE Returned([name |-> ".notdef", advanceWidth |-> font.advance.notdef])

\* lines 1065-1072 and 1089-1096: the lookup returned a glyph that is not the
\* placeholder; a thrown error is skipped
CountsAsCovered(font, code) ==
    /\ ~charToGlyph(font, code).threw
    /\ charToGlyph(font, code).value.name # ".notdef"

\* lines 1061 and 1086: Math.floor(n * 0.7), the product being the double
\* nearest to n times the literal 0.7.  Where 7 n / 10 is a whole number the
\* doubles decide (90 * 0.7 is 62.99999999999999, 10 * 0.7 is 7); anywhere
\* else the rounded product has the floor of the exact one.
CoverageThreshold(n) ==
    IF n > 0 /\ n % 10 = 0
    THEN DoubleFloor(DoubleTimes(DoubleOfQuotient(n, 1), DoubleOfQuotient(7, 10)))
    ELSE (n * 7) \div 10

\* The mutant of hasCharacterRange: no try/catch around the lookup
hasCharacterRangeUncaught(font, startCode, endCode) ==
    IF \E code \in startCode..endCode : charToGlyph(font, code).threw
    THEN Thrown("glyph lookup failed")
    ELSE Returned(Cardinality({code \in startCode..endCode :
                                   CountsAsCovered(font, code)})
                      >= CoverageThreshold(endCode - startCode + 1))

\* lines 1059-1076
hasCharacterRange(font, startCode, endCode) ==
    Returned(Cardinality({code \in startCode..endCode : CountsAsCovered(font, code)})
                 >= CoverageThreshold(endCode - startCode + 1))

\* lines 1084-1100
hasSpecificCharacters(font, characters) ==
    Returned(Cardinality({i \in 1..Len(characters) :
                              CountsAsCovered(font, characters[i])})
                 >= CoverageThreshold(Len(characters)))

\* lines 1107-1129: any thrown lookup ends in the catch block, which answers
\* false; otherwise the truthy advance widths of the ten digits are compared
checkForTabularNumerals(font) ==
    IF \E i \in 1..10 : charToGlyph(font, Digits[i]).threw
    THEN Returned(FALSE)
    ELSE LET pushed == {i \in 1..10 :
                            charToGlyph(font, Digits[i]).value.advanceWidth # 0}
         IN  Returned(/\ Cardinality(pushed) >= 5
                      /\ \A i, j \in pushed :
                             charToGlyph(font, Digits[i]).value.advanceWidth
                                 = charToGlyph(font, Digits[j]).value.advanceWidth)

\* lines 1005-1011
LatinTier(hasBasicLatin, hasLatinSupplement, hasLatinExtendedA, hasLatinExtendedB, totalGlyphs) ==
    IF hasBasicLatin /\ hasLatinSupplement /\ hasLatinExtendedA /\ hasLatinExtendedB
    THEN "Complete (" \o ToString(totalGlyphs) \o " glyphs)"
    ELSE IF hasBasicLatin /\ hasLatinSupplement THEN "Extended (Western European)"
    ELSE IF hasBasicLatin THEN "Basic (ASCII only)"
    ELSE "Unknown"

\* lines 1014-1020
NumeralsTier(hasProportionalNumerals, hasTabularNumerals) ==
    IF hasProportionalNumerals /\ hasTabularNumerals THEN "Proportional and Tabular"
    ELSE IF hasTabularNumerals THEN "Tabular"
    ELSE IF hasProportionalNumerals THEN "Proportional"
    ELSE "Unknown"

\* The mutant of SymbolsTier: no else branch, as for the other descriptors
SymbolsTierWithoutElse(hasCurrencySymbols) ==
    IF hasCurrencySymbols THEN "Basic (+currency)" ELSE "Unknown"

\* lines 1023-1027
SymbolsTier(hasCurrencySymbols) ==
    IF hasCurrencySymbols THEN "Basic (+currency)" ELSE "Basic"

\* lines 1030-1034
PunctuationTier(hasBasicPunctuation, hasExtendedPunctuation) ==
    IF hasBasicPunctuation /\ hasExtendedPunctuation THEN "Complete"
    ELSE IF hasBasicPunctuation THEN "Basic"
    ELSE "Unknown"

\* lines 1037-1043
LanguagesTier(hasBasicLatin, hasLatinSupplement, hasLatinExtendedA) ==
    IF hasBasicLatin /\ hasLatinSupplement /\ hasLatinExtendedA
    THEN "Latin-based (Western European)"
    ELSE IF hasBasicLatin /\ hasLatinSupplement THEN "Latin-based (limited)"
    ELSE IF hasBasicLatin THEN "English only"
    ELSE "Unknown"

\* lines 969-975
InitialCharacterSetInfo ==
    [latin |-> "Unknown", numerals |-> "Unknown", symbols |-> "Unknown",
     punctuation |-> "Unknown", languages |-> "Unknown"]

\* lines 1009-1050: the descriptors for the results of the nine probes; an
\* error thrown by one of the probes is caught at line 1046 and the record is
\* returned as it was initialised
DescriptorsOfProbes(totalGlyphs, hasBasicLatin, hasLatinSupplement, hasLatinExtendedA, hasLatinExtendedB, hasProportionalNumerals, hasTabularNumerals, hasCurrencySymbols, hasBasicPunctuation, hasExtendedPunctuation) ==
    IF \/ hasBasicLatin.threw \/ hasLatinSupplement.threw
       \/ hasLatinExtendedA.threw \/ hasLatinExtendedB.threw
       \/ hasProportionalNumerals.threw \/ hasTabularNumerals.threw
       \/ hasCurrencySymbols.threw
       \/ hasBasicPunctuation.threw \/ hasExtendedPunctuation.threw
    THEN InitialCharacterSetInfo
    ELSE [latin       |-> LatinTier(hasBasicLatin.value, hasLatinSupplement.value,
                                    hasLatinExtendedA.value,
                                    hasLatinExtendedB.value, totalGlyphs),
          numerals    |-> NumeralsTier(hasProportionalNumerals.value,
                                       hasTabularNumerals.value),
          symbols     |-> SymbolsTier(hasCurrencySymbols.value),
          punctuation |-> PunctuationTier(hasBasicPunctuation.value,
                                          hasExtendedPunctuation.value),
          languages   |-> LanguagesTier(hasBasicLatin.value,
                                        hasLatinSupplement.value,
                                        hasLatinExtendedA.value)]

\* lines 967-1050
analyzeCharacterSet(font) ==
    DescriptorsOfProbes(font.glyphs.length,
                        hasCharacterRange(font, 32, 127),
                        hasCharacterRange(font, 160, 255),
                        hasCharacterRange(font, 256, 383),
                        hasCharacterRange(font, 384, 591),
                        hasSpecificCharacters(font, Digits),
                        checkForTabularNumerals(font),
                        hasSpecificCharacters(font, CurrencySymbols),
                        hasSpecificCharacters(font, BasicPunctuation),
                        hasSpecificCharacters(font, ExtendedPunctuation))

---------------------------------------------------------------------------
(* Metrics: calculateFontMetrics and the PANOSE readers it calls           *)

\* A metric before formatting is the quotient num / den of two integers,
\* den > 0: a font-unit value over unitsPerEm, or a default.
Ratio(num, den) == [num |-> num, den |-> den]

\* the hundredths of a formatted value of the given magnitude and the sign of
\* num: "-0.00" when a negative value rounds to zero
WithSignOf(num, magnitude) ==
    IF num >= 0 THEN magnitude
    ELSE IF magnitude = 0 THEN NegativeZero
    ELSE -magnitude

\* value.toFixed(2) as hundredths, for the double value = num / den: the
\* hundredth nearest to the double.  When the quotient lies exactly halfway
\* between two hundredths the double decides, which is the quotient rounded
\* to 53 binary digits (0.485 is stored below 0.485, 0.125 exactly); anywhere
\* else the double and the quotient have the same nearest hundredth.  A
\* negative value keeps its sign when it rounds to zero.
toFixed2(r) ==
    WithSignOf(r.num,
               IF (200 * Abs(r.num)) % (2 * r.den) = r.den
               THEN DoubleToFixed(DoubleOfQuotient(Abs(r.num), r.den), 100)
               ELSE (200 * Abs(r.num) + r.den) \div (2 * r.den))

\* -1, 0 or 1 as the double a / c, for the doubles a and c of two quotients
\* of the same sign, is below, equal to or above the literal p / q
QuotientOfDoublesCmp(a, c, p, q) ==
    DoubleCmp(DoubleOver(DoubleOfQuotient(Abs(a.num), a.den),
                         DoubleOfQuotient(Abs(c.num), c.den)),
              DoubleOfQuotient(p, q))

\* a / c > p / q and a / c < p / q for the quotients a and c and a positive
\* literal p / q; a division by 0 is +Infinity, -Infinity or NaN.  Where the
\* exact quotients meet the literal the doubles are divided and compared
\* (0.49 / 0.7 is 0.7000000000000001); anywhere else the three roundings
\* cannot change the order.
QuotientGt(a, c, p, q) ==
    LET n == a.num * c.den
        d == a.den * c.num
    IN  IF d # 0 /\ q * n = p * d THEN QuotientOfDoublesCmp(a, c, p, q) > 0
        ELSE IF d > 0 THEN q * n > p * d
        ELSE IF d < 0 THEN q * n < p * d
        ELSE n > 0

QuotientLt(a, c, p, q) ==
    LET n == a.num * c.den
        d == a.den * c.num
    IN  IF d # 0 /\ q * n = p * d THEN QuotientOfDoublesCmp(a, c, p, q) < 0
        ELSE IF d > 0 THEN q * n < p * d
        ELSE IF d < 0 THEN q * n > p * d
        ELSE n < 0

\* lines 272-291
estimateContrast(font) ==
    IF "os2" \in DOMAIN font.tables /\ "panose" \in DOMAIN font.tables.os2
    THEN LET strokeVariation == PanoseByte(font.tables.os2.panose, 7)
         IN  IF strokeVariation = 1 THEN "No Variation (1.0)"
             ELSE IF strokeVariation >= 2 /\ strokeVariation <= 5 THEN "Medium (3.5)"
             ELSE IF strokeVariation >= 6 THEN "High (7.0)"
             ELSE "Medium (3.5)"
    ELSE "Medium (3.5)"

\* lines 298-321
determineStrokeTerminals(font) ==
    IF "os2" \in DOMAIN font.tables /\ "panose" \in DOMAIN font.tables.os2
    THEN LET strokeTerminals == PanoseByte(font.tables.os2.panose, 8)
         IN  IF strokeTerminals = 1 THEN "None"
             ELSE IF strokeTerminals = 2 \/ strokeTerminals = 6 THEN "Rounded"
             ELSE IF strokeTerminals = 3 \/ strokeTerminals = 7 THEN "Flared"
             ELSE IF strokeTerminals = 4 \/ strokeTerminals = 8 THEN "Pointed"
             ELSE IF strokeTerminals = 5 THEN "Square"
             ELSE "Rounded"
    ELSE "Rounded"

\* The mutant of determineShape: the ascender and descender rules come first
determineShapeExtendersFirst(xHeight, capHeight, ascender, descender) ==
    IF QuotientGt(ascender, capHeight, 12, 10)
    THEN "Tall ascenders, more distinctive and elegant"
    ELSE IF QuotientGt(descender, capHeight, 5, 10)
    THEN "Deep descenders, more distinctive and elegant"
    ELSE IF QuotientGt(xHeight, capHeight, 7, 10)
    THEN "Large x-height, more open and readable"
    ELSE IF QuotientLt(xHeight, capHeight, 5, 10)
    THEN "Small x-height, more elegant and traditional"
    ELSE "Balanced proportions, versatile and readable"

\* lines 331-353
determineShape(xHeight, capHeight, ascender, descender) ==
    IF QuotientGt(xHeight, capHeight, 7, 10)
    THEN "Large x-height, more open and readable"
    ELSE IF QuotientLt(xHeight, capHeight, 5, 10)
    THEN "Small x-height, more elegant and traditional"
    ELSE IF QuotientGt(ascender, capHeight, 12, 10)
    THEN "Tall ascenders, more distinctive and elegant"
    ELSE IF QuotientGt(descender, capHeight, 5, 10)
    THEN "Deep descenders, more distinctive and elegant"
    ELSE "Balanced proportions, versatile and readable"

\* lines 201-221: the OS/2 value over unitsPerEm when the table has a truthy
\* value, the default otherwise
OS2Metric(font, field, default) ==
    IF "os2" \in DOMAIN font.tables /\ Truthy(font.tables.os2, field)
    THEN Ratio(IF field = "sTypoDescender" THEN Abs(font.tables.os2[field])
               ELSE font.tables.os2[field],
               font.unitsPerEm)
    ELSE default

\* glyph.yMax of the glyph the lookup answers for the code point
GlyphYMax(font, code) ==
    IF code = 120 THEN font.bounds.x
    ELSE IF code = 72 THEN font.bounds.H
    ELSE font.bounds.other

\* lines 224-236: a metric that is exactly 0 is measured from the glyph of the
\* character when the lookup answers a glyph with a truthy advance width
MeasuredFromGlyph(font, metric, code) ==
    IF metric.num = 0 /\ ~charToGlyph(font, code).threw
                      /\ charToGlyph(font, code).value.advanceWidth # 0
    THEN Ratio(GlyphYMax(font, code), font.unitsPerEm)
    ELSE metric

\* lines 239-245
FromHhea(font, metric, field) ==
    IF metric.num = 0 /\ "hhea" \in DOMAIN font.tables
    THEN Ratio(IF field = "descender" THEN Abs(font.tables.hhea[field])
               ELSE font.tables.hhea[field],
               font.unitsPerEm)
    ELSE metric

\* lines 191-265; the lookups of lines 225 and 232 are not inside a try block
calculateFontMetrics(font) ==
    LET xHeight0   == OS2Metric(font, "sxHeight", Ratio(1, 2))
        capHeight0 == OS2Metric(font, "sCapHeight", Ratio(7, 10))
        ascender0  == OS2Metric(font, "sTypoAscender", Ratio(4, 5))
        descender0 == OS2Metric(font, "sTypoDescender", Ratio(1, 5))
        xHeight    == MeasuredFromGlyph(font, xHeight0, 120)
        capHeight  == MeasuredFromGlyph(font, capHeight0, 72)
        ascender   == FromHhea(font, ascender0, "ascender")
        descender  == FromHhea(font, descender0, "descender")
    IN  IF \/ xHeight0.num = 0 /\ charToGlyph(font, 120).threw
           \/ capHeight0.num = 0 /\ charToGlyph(font, 72).threw
        THEN Thrown("glyph lookup failed")
        ELSE Returned([xHeight         |-> toFixed2(xHeight),
                       capHeight       |-> toFixed2(capHeight),
                       ascender        |-> toFixed2(ascender),
                       descender       |-> toFixed2(descender),
                       contrast        |-> estimateContrast(font),
                       strokeTerminals |-> determineStrokeTerminals(font),
                       shape           |-> determineShape(xHeight, capHeight,
                                                          ascender, descender)])

---------------------------------------------------------------------------
(* The pipeline: analyzeFontFile                                           *)

\* lines 84-92
determineFontFormat(font) ==
    IF "outlinesFormat" \in DOMAIN font /\ font.outlinesFormat = "truetype"
    THEN "TrueType"
    ELSE IF "outlinesFormat" \in DOMAIN font /\ font.outlinesFormat = "cff"
    THEN "OpenType/CFF"
    ELSE IF "outlinesFormat" \in DOMAIN font /\ font.outlinesFormat # ""
    THEN font.outlinesFormat
    ELSE "Unknown"

\* font.names.X ? font.names.X.en : fallback  (lines 20 and 25-27)
EnglishNameOr(names, key, fallback) ==
    IF key \in DOMAIN names
    THEN IF "en" \in DOMAIN names[key] THEN names[key].en ELSE Undefined
    ELSE fallback

\* fileName.split('.')[0]: the characters before the first '.', found in the
\* characters from position lo on
RECURSIVE BeforeFirstDot(_, _)
BeforeFirstDot(fileName, lo) ==
    IF lo > Len(fileName) THEN fileName
    ELSE IF SubSeq(fileName, lo, lo) = "." THEN SubSeq(fileName, 1, lo - 1)
    ELSE BeforeFirstDot(fileName, lo + 1)

\* new Date(ms).toLocaleString(): the text depends on the locale and the time
\* zone of the host, which do not change during a run; the model keeps the
\* instant that the text denotes
toLocaleString(ms) == "Date(" \o ToString(ms) \o ")"

\* lines 19-28
FontInfo(fontFile, font) ==
    [name         |-> EnglishNameOr(font.names, "fullName",
                                    BeforeFirstDot(fontFile.name, 1)),
     size         |-> fontFile.size,
     type         |-> fontFile.type,
     lastModified |-> toLocaleString(fontFile.lastModified),
     format       |-> determineFontFormat(font),
     version      |-> EnglishNameOr(font.names, "version", "Unknown"),
     copyright    |-> EnglishNameOr(font.names, "copyright", "Unknown"),
     manufacturer |-> EnglishNameOr(font.names, "manufacturer", "Unknown")]

\* The promise that an async function returns at its first await
Pending == [status |-> "pending"]

Fulfilled(v) == [status |-> "fulfilled", value |-> v]

Rejected(msg) == [status |-> "rejected", message |-> msg]

\* lines 70-77: a file that cannot be read has a readError, the DOMException
\* of the FileReader.  reader.onerror = reject rejects with the ProgressEvent
\* of the reader, an object without a message property.
readFileAsArrayBuffer(fontFile) ==
    IF "readError" \in DOMAIN fontFile
    THEN [threw |-> TRUE, type |-> "error", target |-> [error |-> fontFile.readError]]
    ELSE Returned(fontFile.name)

\* line 16, opentype.parse: bytes that are no font have a parseError, the
\* message of the Error that the parser throws; other bytes parse to
\* fontFile.font
parse(fontFile) ==
    IF "parseError" \in DOMAIN fontFile THEN Thrown(fontFile.parseError)
    ELSE Returned(fontFile.font)

\* `${error.message}` for a caught value: an undefined property prints as
\* "undefined"
MessageOf(error) ==
    IF "message" \in DOMAIN error THEN error.message ELSE "undefined"

\* lines 19-58: the record returned for a font with its style, metrics and
\* personality
AnalysisResult(fontFile, font, fontStyle, fontMetrics, fontPersonality) ==
    Fulfilled(FontInfo(fontFile, font) @@
        [style           |-> fontStyle,
         metrics         |-> fontMetrics,
         personality     |-> fontPersonality,
         recommendations |-> generateRecommendations(fontStyle, fontMetrics,
                                                     fontPersonality),
         characterSet    |-> analyzeCharacterSet(font),
         weight          |-> determineFontWeight(font),
         width           |-> determineFontWidth(font)])

\* lines 31-62 for a parsed font, with what determineFontStyle and
\* calculateFontMetrics do on it: an error thrown by either is caught at line
\* 57 and wrapped
AnalysisOfParsedFont(fontFile, font, fontStyle, fontMetrics, random) ==
    IF fontStyle.threw
    THEN Rejected("Failed to analyze font: " \o MessageOf(fontStyle))
    ELSE IF fontMetrics.threw
    THEN Rejected("Failed to analyze font: " \o MessageOf(fontMetrics))
    ELSE AnalysisResult(fontFile, font, fontStyle.value, fontMetrics.value,
                        analyzeFontPersonality(fontStyle.value, fontMetrics.value,
                                               random))

\* lines 13-62 from the settlement of the awaited read on: read is what the
\* FileReader delivered, random is the outcome of Math.random() > 0.5 in the
\* description
AnalysisAfterRead(fontFile, read, random) ==
    IF read.threw
    THEN Rejected("Failed to analyze font: " \o MessageOf(read))
    ELSE IF parse(fontFile).threw
    THEN Rejected("Failed to analyze font: " \o MessageOf(parse(fontFile)))
    ELSE AnalysisOfParsedFont(fontFile, parse(fontFile).value,
                              determineFontStyle(parse(fontFile).value),
                              calculateFontMetrics(parse(fontFile).value), random)

\* lines 10-63: the outcome with which the promise of analyzeFontFile(fontFile)
\* settles
analyzeFontFile(fontFile, random) ==
    AnalysisAfterRead(fontFile, readFileAsArrayBuffer(fontFile), random)

\* lines 13-47: the calls that analyzeFontFile(fontFile) has made when its
\* promise settles, in order; the first one that throws is the last one made.
\* The first is made before the await of line 13, the others after it.
analyzeFontFileCalls(fontFile) ==
    <<"readFileAsArrayBuffer">>
    \o (IF readFileAsArrayBuffer(fontFile).threw THEN <<>>
        ELSE <<"opentype.parse">>
        \o (IF parse(fontFile).threw THEN <<>>
            ELSE <<"determineFontFormat", "determineFontStyle">>
            \o (IF determineFontStyle(parse(fontFile).value).threw THEN <<>>
                ELSE <<"calculateFontMetrics">>
                \o (IF calculateFontMetrics(parse(fontFile).value).threw THEN <<>>
                    ELSE <<"analyzeFontPersonality", "generateRecommendations",
                           "analyzeCharacterSet", "determineFontWeight",
                           "determineFontWidth">>))))

---------------------------------------------------------------------------
(* Comparator: compareFonts                                                *)

\* The JavaScript value null
Null == "<null>"

\* `${value}` for a string that may be undefined
TemplateText(value) == IF value = Undefined THEN "undefined" ELSE value

\* a - b on numbers
Minus(a, b) ==
    IF isNaN(a) \/ isNaN(b) THEN NaN
    ELSE WithoutSignOfZero(a) - WithoutSignOfZero(b)

\* String(Math.abs(percentage)) for a percentage given in tenths: "12.5",
\* "10", "0"
PercentText(tenths) ==
    ToString(tenths \div 10)
        \o (IF tenths % 10 = 0 THEN "" ELSE "." \o ToString(tenths % 10))

\* line 1374: the size of num1 - num2 for the sizes of two nonzero doubles:
\* their sum when the signs differ, the larger less the smaller otherwise
SizeOfDifference(num1, num2, sameSign, firstLarger) ==
    IF ~sameSign THEN DoublePlus(num1, num2)
    ELSE IF firstLarger THEN DoubleMinus(num1, num2)
    ELSE DoubleMinus(num2, num1)

\* line 1375: ((diff / num1) * 100).toFixed(1) in tenths of a percent, sign
\* dropped
PercentageOfDoubles(num1, num2, sameSign, firstLarger) ==
    DoubleToFixed(DoubleTimes(DoubleOver(SizeOfDifference(num1, num2, sameSign,
                                                          firstLarger), num1),
                              DoubleOfQuotient(100, 1)),
                  10)

\* lines 1368-1381 for two em strings, given in hundredths of an em (NaN for
\* a string that does not parse): ((diff / num1) * 100).toFixed(1), in tenths
\* of a percent; a division by 0 is an infinity or NaN.  Where the exact
\* percentage lies halfway between two tenths the doubles decide; anywhere
\* else the roundings cannot change the nearest tenth.
calculateDifference(value1, value2) ==
    IF ~isNaN(value1) /\ ~isNaN(value2)
    THEN LET v1   == WithoutSignOfZero(value1)
             v2   == WithoutSignOfZero(value2)
             diff == v1 - v2
             direction == IF diff > 0 THEN "larger" ELSE "smaller"
             halfway == (2000 * Abs(diff)) % (2 * Abs(v1)) = Abs(v1)
         IN  IF v1 = 0
             THEN (IF diff = 0 THEN "NaN" ELSE "Infinity") \o "% " \o direction
             ELSE PercentText(IF halfway
                              THEN PercentageOfDoubles(DoubleOfQuotient(Abs(v1), 100),
                                                       DoubleOfQuotient(Abs(v2), 100),
                                                       (v1 > 0) = (v2 > 0),
                                                       Abs(v1) > Abs(v2))
                              ELSE (2000 * Abs(diff) + Abs(v1)) \div (2 * Abs(v1)))
                      \o "% " \o direction
    ELSE IF value1 = value2 THEN "Identical" ELSE "Different"

\* lines 1389-1395
compareCharacterSets(set1, set2) ==
    [primary |-> set1, secondary |-> set2,
     difference |-> IF set1 = set2 THEN "Identical" ELSE "Different"]

\* lines 1455-1463
HeadingsBody(font1, font2) ==
    LET first  == TemplateText(font1.name) \o " for headings, "
                      \o TemplateText(font2.name) \o " for body text"
        second == TemplateText(font2.name) \o " for headings, "
                      \o TemplateText(font1.name) \o " for body text"
    IN  IF font1.weight = "Bold" \/ font1.weight = "Heavy" \/ font1.weight = "Black"
        THEN first
        ELSE IF font2.weight = "Bold" \/ font2.weight = "Heavy" \/ font2.weight = "Black"
        THEN second
        ELSE IF Gt(font1.personality.formality, font2.personality.formality)
        THEN first
        ELSE second

\* lines 1447-1479
generatePairingRecommendations(font1, font2) ==
    [headingsBody     |-> HeadingsBody(font1, font2),
     contrastPairing  |->
         IF font1.metrics.contrast # font2.metrics.contrast
         THEN "Good contrast between " \o TemplateText(font1.name) \o " and "
                  \o TemplateText(font2.name) \o " creates visual interest"
         ELSE "Similar contrast levels may create a more unified look",
     hierarchyPairing |->
         IF Gt(FormalityDiff(font1, font2), 30)
         THEN "Strong personality difference creates clear hierarchy"
         ELSE "Similar personalities create a harmonious design"]

\* lines 1240-1275
MetricsComparison(primaryFont, secondaryFont) ==
    [field \in {"xHeight", "capHeight", "ascender", "descender",
                "contrast", "strokeTerminals", "shape"} |->
        [primary    |-> primaryFont.metrics[field],
         secondary  |-> secondaryFont.metrics[field],
         difference |->
             IF field \in {"xHeight", "capHeight", "ascender", "descender"}
             THEN calculateDifference(primaryFont.metrics[field],
                                      secondaryFont.metrics[field])
             ELSE Null]]

\* lines 1278-1309
PersonalityComparison(primaryFont, secondaryFont) ==
    [trait \in {"formality", "approachability", "gentleness", "sophistication",
                "traditionality", "playfulness"} |->
        [primary    |-> primaryFont.personality[trait],
         secondary  |-> secondaryFont.personality[trait],
         difference |-> Minus(primaryFont.personality[trait],
                              secondaryFont.personality[trait])]]

\* lines 1312-1318
CharacterSetComparison(primaryFont, secondaryFont) ==
    [field \in {"latin", "numerals", "symbols", "punctuation", "languages"} |->
        compareCharacterSets(primaryFont.characterSet[field],
                             secondaryFont.characterSet[field])]

\* lines 1321-1332
GeneralComparison(primaryFont, secondaryFont) ==
    [field \in {"weight", "width"} |->
        [primary |-> primaryFont[field], secondary |-> secondaryFont[field],
         difference |-> Null]]

\* lines 1239-1355: the record built from the two analysis results
Comparison(primaryFont, secondaryFont) ==
    [primaryFont   |-> [name |-> primaryFont.name, format |-> primaryFont.format],
     secondaryFont |-> [name |-> secondaryFont.name, format |-> secondaryFont.format],
     metrics       |-> MetricsComparison(primaryFont, secondaryFont),
     personality   |-> PersonalityComparison(primaryFont, secondaryFont),
     characterSet  |-> CharacterSetComparison(primaryFont, secondaryFont),
     general       |-> GeneralComparison(primaryFont, secondaryFont),
     compatibilityScore     |-> calculateCompatibilityScore(primaryFont, secondaryFont),
     pairingRecommendations |-> generatePairingRecommendations(primaryFont,
                                                               secondaryFont)]

\* lines 1239-1360 for the outcomes of the two analyses: a rejected analysis
\* is caught at line 1356 and wrapped
ComparisonOfAnalyses(primaryFont, secondaryFont) ==
    IF primaryFont.status = "rejected"
    THEN Rejected("Font comparison failed: " \o primaryFont.message)
    ELSE IF secondaryFont.status = "rejected"
    THEN Rejected("Font comparison failed: " \o secondaryFont.message)
    ELSE Fulfilled(Comparison(primaryFont.value, secondaryFont.value))

\* lines 1232-1360; random1 and random2 are the draws of the two analyses
compareFonts(primaryFontFile, secondaryFontFile, random1, random2) ==
    ComparisonOfAnalyses(analyzeFontFile(primaryFontFile, random1),
                         analyzeFontFile(secondaryFontFile, random2))

\* Each call of the sequence, made on behalf of the file of that role
CallsOn(role, calls) == [i \in 1..Len(calls) |-> [file |-> role, call |-> calls[i]]]

\* The mutant of compareFontsCalls: both analyses are started before either is
\* awaited
compareFontsCallsConcurrent(primaryFontFile, secondaryFontFile) ==
    CallsOn("primary", analyzeFontFileCalls(primaryFontFile))
        \o CallsOn("secondary", analyzeFontFileCalls(secondaryFontFile))

\* lines 1235-1236: the calls that compareFonts has made through its two
\* analyses when its promise settles; the second analysis starts when the
\* first has fulfilled
compareFontsCalls(primaryFontFile, secondaryFontFile) ==
    CallsOn("primary", analyzeFontFileCalls(primaryFontFile))
        \o (IF analyzeFontFile(primaryFontFile, TRUE).status = "rejected" THEN <<>>
            ELSE CallsOn("secondary", analyzeFontFileCalls(secondaryFontFile)))

\* lines 1235-1360 when the awaited analysis of the primary font has settled
\* as primaryFont: a rejection is caught at line 1356 and settles the
\* comparison; otherwise line 1236 starts the analysis of the secondary font,
\* which reads the file, and the comparison stays pending
ComparisonAfterPrimary(primaryFont, primaryFontFile, secondaryFontFile) ==
    [outcome     |-> IF primaryFont.status = "rejected"
                     THEN Rejected("Font comparison failed: " \o primaryFont.message)
                     ELSE Pending,
     primaryFont |-> primaryFont,
     calls       |-> IF primaryFont.status = "rejected"
                     THEN compareFontsCalls(primaryFontFile, secondaryFontFile)
                     ELSE SubSeq(compareFontsCalls(primaryFontFile, secondaryFontFile),
                                 1, Len(analyzeFontFileCalls(primaryFontFile)) + 1)]

---------------------------------------------------------------------------
(* Specifications: the arguments of one entry point are drawn in Init and  *)
(* the entry point is applied by the action                                *)

StyleLabels == {"serif", "sans-serif", "script", "decorative", "monospace"}

ContrastLabels == {"No Variation (1.0)", "Medium (3.5)", "High (7.0)"}

TerminalLabels == {"None", "Rounded", "Flared", "Pointed", "Square"}

ShapeLabels ==
    {"Large x-height, more open and readable",
     "Small x-height, more elegant and traditional",
     "Tall ascenders, more distinctive and elegant",
     "Deep descenders, more distinctive and elegant",
     "Balanced proportions, versatile and readable"}

(* analyzeFontPersonality(fontStyle, fontMetrics) *)

PersonalityArgs ==
    [fontStyle   : StyleLabels \cup {"unknown"},
     fontMetrics : [xHeight         : {NaN, 30, 50, 70},
                    capHeight       : {NaN, 70},
                    ascender        : {80},
                    descender       : {20, 23},
                    contrast        : ContrastLabels,
                    strokeTerminals : TerminalLabels,
                    shape           : ShapeLabels]]

InitPersonality == input \in PersonalityArgs /\ results = <<>>

CallAnalyzeFontPersonality ==
    /\ results = <<>>
    /\ \E random \in BOOLEAN :
           results' = <<analyzeFontPersonality(input.fontStyle, input.fontMetrics, random)>>
    /\ UNCHANGED input

NextPersonality == CallAnalyzeFontPersonality

SpecPersonality == InitPersonality /\ [][NextPersonality]_vars

(* generateRecommendations(fontStyle, fontMetrics, fontPersonality) *)

RecommendationArgs ==
    [fontStyle       : StyleLabels \cup {"unknown"},
     fontMetrics     : [xHeight         : {NaN, 30, 50, 70},
                        capHeight       : {70},
                        ascender        : {80},
                        descender       : {20, 23},
                        contrast        : ContrastLabels,
                        strokeTerminals : {"None", "Rounded", "Square"},
                        shape           : {"Balanced proportions, versatile and readable"}],
     fontPersonality : [formality       : {20, 80},
                        approachability : {50, 80},
                        gentleness      : {50},
                        sophistication  : {20, 68, 80},
                        traditionality  : {50},
                        playfulness     : {20, 50, 80}]]

InitRecommendations == input \in RecommendationArgs /\ results = <<>>

CallGenerateRecommendations ==
    /\ results = <<>>
    /\ results' = <<generateRecommendations(input.fontStyle, input.fontMetrics,
                                            input.fontPersonality)>>
    /\ UNCHANGED input

NextRecommendations == CallGenerateRecommendations

SpecRecommendations == InitRecommendations /\ [][NextRecommendations]_vars

(* calculateCompatibilityScore(font1, font2); the x-heights include the   *)
(* parsed "-0.00 em" and "-0.50 em" of a negative OS/2 sxHeight           *)

AnalysisSummaries ==
    [format      : {"TrueType", "OpenType/CFF"},
     weight      : {"Regular (400)", "Bold (700)"},
     metrics     : [xHeight : {NaN, NegativeZero, -50, 0, 45, 50, 60, 70}],
     personality : [formality : {NaN, 20, 55, 85}]]

InitCompatibility ==
    input \in [font1 : AnalysisSummaries, font2 : AnalysisSummaries] /\ results = <<>>

CallCalculateCompatibilityScore ==
    /\ results = <<>>
    /\ results' = <<calculateCompatibilityScore(input.font1, input.font2)>>
    /\ UNCHANGED input

NextCompatibility == CallCalculateCompatibilityScore

SpecCompatibility == InitCompatibility /\ [][NextCompatibility]_vars

---------------------------------------------------------------------------
(* determineFontStyle(font) *)

\* A name id of a font under analysis: missing, with an English string, or
\* with a translation only.
Absent == [present |-> FALSE, entry |-> EmptyRecord]

English(s) == [present |-> TRUE, entry |-> [en |-> s]]

OtherLanguage == [present |-> TRUE, entry |-> [de |-> "Schrift"]]

NameRecord(key, option) == Opt(key, option.present, option.entry)

\* The ten PANOSE bytes with family type p0, serif style p1 and proportion p3
Panose(p0, p1, p3) == <<p0, p1, 0, p3, 0, 0, 0, 0, 0, 0>>

StyleNames ==
    { NameRecord("fontFamily", f) @@ NameRecord("fullName", u)
          @@ NameRecord("postScriptName", p) :
        f \in {Absent, English("Acme"), English("Open Sans"), English("Noto Serif"),
               English("Sans Serif Pro"), English("Brush Script"),
               English("Art Deco"), OtherLanguage},
        u \in {Absent, English("Acme Bold")},
        p \in {Absent, OtherLanguage} }

StyleOS2Tables ==
    { [sFamilyClass |-> c] : c \in {0, 2048} }
    \cup { [panose |-> Panose(p0, p1, p3), sFamilyClass |-> c] :
             p0 \in {0, 2, 3, 4}, p1 \in {0, 1, 5, 11}, p3 \in {0, 9},
             c \in {0, 517, 2048, 2560, 3072} }

StyleTables ==
    { Opt("os2", hasOS2, os2) @@ Opt("post", hasPost, [isFixedPitch |-> fixed]) :
        hasOS2 \in BOOLEAN, os2 \in StyleOS2Tables,
        hasPost \in BOOLEAN, fixed \in {0, 1} }

InitStyle ==
    /\ input \in [font : [names : StyleNames, tables : StyleTables]]
    /\ results = <<>>

CallDetermineFontStyle ==
    /\ results = <<>>
    /\ results' = <<determineFontStyle(input.font)>>
    /\ UNCHANGED input

NextStyle == CallDetermineFontStyle

SpecStyle == InitStyle /\ [][NextStyle]_vars

(* determineFontWeight(font) and determineFontWidth(font) *)

WeightWidthNames ==
    { NameRecord("fullName", u) @@ NameRecord("fontFamily", f)
          @@ NameRecord("fontSubfamily", s) :
        u \in {Absent, English("Acme Bold Condensed"), English("Acme Semi Condensed"),
               English("Acme Extra Condensed Light"), OtherLanguage},
        f \in {Absent, English("Acme"), English("Acme Condensed")},
        s \in {Absent, English("Bold"), English("ExtraBold Expanded"), OtherLanguage} }

WeightWidthTables ==
    { EmptyRecord }
    \cup { [os2 |-> [usWeightClass |-> w, usWidthClass |-> d]] :
             w \in {0, 400, 700, 950}, d \in {0, 3, 5, 10} }

InitWeightWidth ==
    /\ input \in [font : [names : WeightWidthNames, tables : WeightWidthTables]]
    /\ results = <<>>

\* analyzeFontFile, lines 46-47
CallDetermineWeightAndWidth ==
    /\ results = <<>>
    /\ results' = <<[weight |-> determineFontWeight(input.font),
                     width  |-> determineFontWidth(input.font)]>>
    /\ UNCHANGED input

NextWeightWidth == CallDetermineWeightAndWidth

SpecWeightWidth == InitWeightWidth /\ [][NextWeightWidth]_vars

---------------------------------------------------------------------------
(* analyzeCharacterSet(font) *)

\* Coverage of Basic Latin: nothing, all of it, its first 67 code points (the
\* threshold), its first 66, all but the digits, the digits alone
BasicLatinCoverage ==
    { {}, {<<32, 127>>}, {<<32, 98>>}, {<<32, 97>>}, {<<32, 47>>, <<58, 127>>},
      {<<48, 57>>} }

\* Code points whose lookup throws: none, one of the four Latin ranges, the
\* digits, the currency signs, every code point
ThrowingLookups ==
    { {}, {<<32, 127>>}, {<<160, 255>>}, {<<256, 383>>}, {<<384, 591>>},
      {<<48, 57>>}, {<<36, 36>>, <<162, 165>>, <<8364, 8364>>}, {<<0, 1114111>>} }

\* Advance widths of the ten digits: all equal, one wider, none
DigitWidths ==
    { <<500, 500, 500, 500, 500, 500, 500, 500, 500, 500>>,
      <<500, 300, 500, 500, 500, 500, 500, 500, 500, 500>>,
      <<0, 0, 0, 0, 0, 0, 0, 0, 0, 0>> }

SurveyedFonts ==
    { [glyphs   |-> [length |-> n],
       encoding |-> [mapped |-> bl \cup l1 \cup ea \cup eb \cup euro, throwing |-> t],
       advance  |-> [digits |-> dw, other |-> 600, notdef |-> nd]] :
        n \in {3, 700},
        bl \in BasicLatinCoverage,
        l1 \in {{}, {<<160, 255>>}},
        ea \in {{}, {<<256, 383>>}},
        eb \in {{}, {<<384, 591>>}},
        euro \in {{}, {<<8364, 8364>>}},
        t \in ThrowingLookups,
        dw \in DigitWidths,
        nd \in {0, 500} }

InitCharacterSet == input \in [font : SurveyedFonts] /\ results = <<>>

CallAnalyzeCharacterSet ==
    /\ results = <<>>
    /\ results' = <<analyzeCharacterSet(input.font)>>
    /\ UNCHANGED input

NextCharacterSet == CallAnalyzeCharacterSet

SpecCharacterSet == InitCharacterSet /\ [][NextCharacterSet]_vars

---------------------------------------------------------------------------
(* analyzeFontFile(fontFile), called MaxCalls times on the same file.  A  *)
(* call returns a pending promise at the await of line 13 and goes on when *)
(* the FileReader has delivered, so that other calls start and settle in   *)
(* between.  results.promises holds the promise of each call, in the order *)
(* of the calls; results.settled the calls in the order they settled.      *)

MaxCalls == 2

\* The ten PANOSE bytes with family type p0, stroke variation p7 and stroke
\* terminals p8
PanoseOfStrokes(p0, p7, p8) == <<p0, 0, 0, 0, 0, 0, 0, p7, p8, 0>>

AnalyzedOS2Tables ==
    { [panose |-> PanoseOfStrokes(p0, p7, p8), sFamilyClass |-> 0,
       usWeightClass |-> 700, usWidthClass |-> 5,
       sxHeight |-> x, sCapHeight |-> 700,
       sTypoAscender |-> 800, sTypoDescender |-> -200] :
        p0 \in {2, 3}, p7 \in {1, 4, 6}, p8 \in {1, 2, 5}, x \in {0, 450, 720} }

AnalyzedFonts ==
    { [names          |-> NameRecord("fullName", u)
                              @@ [version |-> [en |-> "Version 1.0"]],
       tables         |-> Opt("os2", hasOS2, os2),
       unitsPerEm     |-> 1000,
       outlinesFormat |-> format,
       glyphs         |-> [length |-> 250],
       encoding       |-> [mapped |-> {<<32, 127>>}, throwing |-> {}],
       advance        |-> [digits |-> <<500, 500, 500, 500, 500, 500, 500, 500, 500, 500>>,
                           other |-> 600, notdef |-> 500],
       bounds         |-> [x |-> 480, H |-> 700, other |-> 700]] :
        u \in {Absent, English("Acme Serif"), OtherLanguage},
        hasOS2 \in BOOLEAN, os2 \in AnalyzedOS2Tables,
        format \in {"truetype", "cff"} }

AnalyzedFiles ==
    { [name |-> "acme.regular.ttf", size |-> 48000, type |-> "font/ttf",
       lastModified |-> 86400000, font |-> font] : font \in AnalyzedFonts }

InitAnalysis ==
    /\ input \in [fontFile : AnalyzedFiles]
    /\ results = [promises |-> <<>>, settled |-> <<>>]

\* lines 10-13 and 70-77: the call starts the read and returns its promise
CallAnalyzeFontFile ==
    /\ Len(results.promises) < MaxCalls
    /\ results' = [results EXCEPT !.promises = Append(@, Pending)]
    /\ UNCHANGED input

\* reader.onload or reader.onerror of a call (lines 73-74), and lines 13-62
\* of that call, which settle its promise
ReaderDelivers(call) ==
    /\ results.promises[call] = Pending
    /\ \E random \in BOOLEAN :
           results' = [promises |-> [results.promises EXCEPT ![call] =
                                        AnalysisAfterRead(input.fontFile,
                                            readFileAsArrayBuffer(input.fontFile),
                                            random)],
                       settled  |-> Append(results.settled, call)]
    /\ UNCHANGED input

NextAnalysis ==
    \/ CallAnalyzeFontFile
    \/ \E call \in 1..Len(results.promises) : ReaderDelivers(call)

SpecAnalysis == InitAnalysis /\ [][NextAnalysis]_vars

(* analyzeFontFile(fontFile) on files that cannot be read, on bytes that   *)
(* are no font, and on fonts                                               *)

UnreadableFiles ==
    { [name |-> "locked.ttf", size |-> 48000, type |-> "font/ttf",
       lastModified |-> 86400000,
       readError |-> [name |-> "NotReadableError", message |-> msg]] :
        msg \in {"The requested file could not be read",
                 "A requested file or directory could not be found"} }

UnparsableFiles ==
    { [name |-> "notes.ttf", size |-> 120, type |-> "font/ttf",
       lastModified |-> 86400000, parseError |-> msg] :
        msg \in {"Unsupported OpenType signature wOF2",
                 "Unsupported OpenType signature <htm"} }

InitTracedAnalysis ==
    /\ input \in [fontFile : UnreadableFiles \cup UnparsableFiles \cup AnalyzedFiles]
    /\ results = <<>>

\* One call of analyzeFontFile, lines 10-13: its promise and the call it has
\* made when it returns the promise
CallAnalyzeFontFileTraced ==
    /\ results = <<>>
    /\ results' = <<[outcome |-> Pending,
                     calls   |-> SubSeq(analyzeFontFileCalls(input.fontFile), 1, 1)]>>
    /\ UNCHANGED input

\* reader.onload or reader.onerror (lines 73-74), and lines 13-62: the
\* outcome and all the calls made
ReaderDeliversTraced ==
    /\ Len(results) = 1
    /\ results[1].outcome = Pending
    /\ \E random \in BOOLEAN :
           results' = <<[outcome |-> AnalysisAfterRead(input.fontFile,
                                        readFileAsArrayBuffer(input.fontFile),
                                        random),
                         calls   |-> analyzeFontFileCalls(input.fontFile)]>>
    /\ UNCHANGED input

NextTracedAnalysis ==
    \/ CallAnalyzeFontFileTraced
    \/ ReaderDeliversTraced

SpecTracedAnalysis == InitTracedAnalysis /\ [][NextTracedAnalysis]_vars

---------------------------------------------------------------------------
(* compareFonts(primaryFontFile, secondaryFontFile).  The call returns a   *)
(* pending promise at the await of line 1235 and goes on when the read of  *)
(* the primary file has been delivered and its analysis has settled; it    *)
(* waits once more, at line 1236, for the read and the analysis of the     *)
(* secondary file.  results[1] holds the promise of the call (outcome),    *)
(* the constant primaryFont of line 1235 (pending until it is assigned)    *)
(* and the calls made so far.                                              *)

\* The ten PANOSE bytes of a Latin text font with serif style p1, stroke
\* variation p7 and rounded terminals
PanoseOfText(p1, p7) == <<2, p1, 0, 0, 0, 0, 0, p7, 2, 0>>

ComparedFont(names, tables) ==
    [names          |-> names,
     tables         |-> tables,
     unitsPerEm     |-> 1000,
     outlinesFormat |-> "truetype",
     glyphs         |-> [length |-> 250],
     encoding       |-> [mapped |-> {<<32, 127>>}, throwing |-> {}],
     advance        |-> [digits |-> <<500, 500, 500, 500, 500, 500, 500, 500, 500, 500>>,
                         other |-> 600, notdef |-> 500],
     bounds         |-> [x |-> 480, H |-> 700, other |-> 700]]

ComparedFonts ==
    { ComparedFont([fullName |-> [en |-> IF w = 700 THEN "Acme Text Bold"
                                         ELSE "Acme Text"]],
                   [os2 |-> [panose |-> PanoseOfText(p1, p7), sFamilyClass |-> 0,
                             usWeightClass |-> w, usWidthClass |-> 5,
                             sxHeight |-> x, sCapHeight |-> 700,
                             sTypoAscender |-> 800, sTypoDescender |-> -200]]) :
        p1 \in {2, 11}, p7 \in {1, 6}, w \in {400, 700}, x \in {450, 720} }
    \cup { ComparedFont([fullName |-> [en |-> "Acme Tiny"]],
                        [os2 |-> [panose |-> PanoseOfText(2, 1), sFamilyClass |-> 0,
                                  usWeightClass |-> 400, usWidthClass |-> 5,
                                  sxHeight |-> 4, sCapHeight |-> 700,
                                  sTypoAscender |-> 800, sTypoDescender |-> -200]]),
           ComparedFont([fullName |-> [en |-> "Acme Plain"]], EmptyRecord),
           ComparedFont([fullName |-> [de |-> "Schrift"]], EmptyRecord) }

ComparedFiles ==
    { [name |-> "acme.ttf", size |-> 48000, type |-> "font/ttf",
       lastModified |-> 86400000, font |-> font] : font \in ComparedFonts }
    \cup { [name |-> "locked.ttf", size |-> 48000, type |-> "font/ttf",
            lastModified |-> 86400000,
            readError |-> [name |-> "NotReadableError",
                           message |-> "The requested file could not be read"]],
           [name |-> "notes.ttf", size |-> 120, type |-> "font/ttf",
            lastModified |-> 86400000,
            parseError |-> "Unsupported OpenType signature <htm"] }

InitComparison ==
    /\ input \in [primaryFontFile : ComparedFiles, secondaryFontFile : ComparedFiles]
    /\ results = <<>>

\* lines 1232-1235 with lines 10-13 of analyzeFontFile: the call starts the
\* read of the primary file and returns its promise
CallCompareFonts ==
    /\ results = <<>>
    /\ results' = <<[outcome     |-> Pending,
                     primaryFont |-> Pending,
                     calls       |-> SubSeq(compareFontsCalls(input.primaryFontFile,
                                                              input.secondaryFontFile),
                                            1, 1)]>>
    /\ UNCHANGED input

\* reader.onload or reader.onerror of the primary read (lines 73-74), lines
\* 13-62 of the primary analysis and lines 1235-1236 of compareFonts
PrimaryReaderDelivers ==
    /\ Len(results) = 1
    /\ results[1].primaryFont = Pending
    /\ \E random1 \in BOOLEAN :
           results' = <<ComparisonAfterPrimary(
                            AnalysisAfterRead(input.primaryFontFile,
                                readFileAsArrayBuffer(input.primaryFontFile), random1),
                            input.primaryFontFile, input.secondaryFontFile)>>
    /\ UNCHANGED input

\* reader.onload or reader.onerror of the secondary read (lines 73-74), lines
\* 13-62 of the secondary analysis and lines 1236-1360 of compareFonts
SecondaryReaderDelivers ==
    /\ Len(results) = 1
    /\ results[1].primaryFont # Pending
    /\ results[1].outcome = Pending
    /\ \E random2 \in BOOLEAN :
           results' = <<[outcome     |-> ComparisonOfAnalyses(results[1].primaryFont,
                                             AnalysisAfterRead(input.secondaryFontFile,
                                                 readFileAsArrayBuffer(input.secondaryFontFile),
                                                 random2)),
                         primaryFont |-> results[1].primaryFont,
                         calls       |-> compareFontsCalls(input.primaryFontFile,
                                                           input.secondaryFontFile)]>>
    /\ UNCHANGED input

NextComparison ==
    \/ CallCompareFonts
    \/ PrimaryReaderDelivers
    \/ SecondaryReaderDelivers

SpecComparison == InitComparison /\ [][NextComparison]_vars

---------------------------------------------------------------------------
(* calculateFontMetrics(font) on fonts with and without an OS/2 table,     *)
(* with and without OS/2 values, an hhea table and glyphs for x and H; an  *)
(* sxHeight of 485 is 0.485 em of 1000 units, of -4 is -0.004 em           *)

MeasuredOS2Tables ==
    { [sxHeight |-> x, sCapHeight |-> c, sTypoAscender |-> a,
       sTypoDescender |-> d, panose |-> PanoseOfStrokes(2, 4, 2)] :
        x \in {-4, 0, 450, 485}, c \in {0, 700}, a \in {0, 800}, d \in {0, -200} }

MeasuredHheaTables == { [ascender |-> 900, descender |-> -250] }

MeasuredFonts ==
    { [tables     |-> Opt("os2", hasOS2, os2) @@ Opt("hhea", hasHhea, hhea),
       unitsPerEm |-> unitsPerEm,
       encoding   |-> [mapped |-> mapped, throwing |-> {}],
       advance    |-> [digits |-> <<500, 500, 500, 500, 500, 500, 500, 500, 500, 500>>,
                       other |-> 600, notdef |-> 500],
       bounds     |-> [x |-> 480, H |-> 720, other |-> 700]] :
        hasOS2 \in BOOLEAN, os2 \in MeasuredOS2Tables,
        hasHhea \in BOOLEAN, hhea \in MeasuredHheaTables,
        unitsPerEm \in {1000, 2000},
        mapped \in {{}, {<<32, 127>>}} }

InitMetrics == input \in [font : MeasuredFonts] /\ results = <<>>

CallCalculateFontMetrics ==
    /\ results = <<>>
    /\ results' = <<calculateFontMetrics(input.font)>>
    /\ UNCHANGED input

NextMetrics == CallCalculateFontMetrics

SpecMetrics == InitMetrics /\ [][NextMetrics]_vars

---------------------------------------------------------------------------
(* analyzeFontPersonality(fontStyle, fontMetrics) on every font of a family *)
(* of fonts that share the style, the contrast, the terminals, the x-height *)
(* bucket (0.4 to 0.6 em) and the balanced shape class, and differ in their *)
(* four em values                                                           *)

FamilyXHeights == <<41, 42, 43, 44, 45, 46, 47>>

FamilyCapHeights == <<68, 69, 70, 71, 72>>

FamilyAscenders == <<78, 79, 80, 81>>

FamilyDescenders == <<18, 19, 20, 21, 22>>

FamilySize ==
    Len(FamilyXHeights) * Len(FamilyCapHeights) * Len(FamilyAscenders)
        * Len(FamilyDescenders)

\* The metrics record of the k-th font of the family, as calculateFontMetrics
\* returns it: the four em values in hundredths and the three labels
FamilyMetrics(k, contrast, strokeTerminals) ==
    LET i == k - 1
        nx == Len(FamilyXHeights)
        nc == Len(FamilyCapHeights)
        na == Len(FamilyAscenders)
        nd == Len(FamilyDescenders)
    IN  [xHeight         |-> FamilyXHeights[1 + (i % nx)],
         capHeight       |-> FamilyCapHeights[1 + ((i \div nx) % nc)],
         ascender        |-> FamilyAscenders[1 + ((i \div (nx * nc)) % na)],
         descender       |-> FamilyDescenders[1 + ((i \div (nx * nc * na)) % nd)],
         contrast        |-> contrast,
         strokeTerminals |-> strokeTerminals,
         shape           |-> "Balanced proportions, versatile and readable"]

\* The six trait scores of a personality record
TraitScores(personality) ==
    [t \in {TraitNames[i] : i \in 1..6} |-> personality[t]]

InitFamily ==
    /\ input \in [fontStyle : StyleLabels, contrast : ContrastLabels,
                  strokeTerminals : {"Rounded"}]
    /\ results = <<>>

\* The next font of the family is analysed
CallAnalyzeNextFont ==
    /\ Len(results) < FamilySize
    /\ \E random \in BOOLEAN :
           results' = Append(results,
               TraitScores(analyzeFontPersonality(input.fontStyle,
                   FamilyMetrics(Len(results) + 1, input.contrast,
                                 input.strokeTerminals),
                   random)))
    /\ UNCHANGED input

NextFamily == CallAnalyzeNextFont

SpecFamily == InitFamily /\ [][NextFamily]_vars

---------------------------------------------------------------------------
(* hasCharacterRange(font, startCode, endCode) on the four probed ranges   *)
(* and hasSpecificCharacters(font, characters) on the four character lists *)
(* for fonts that map a run of code points                                  *)

\* lines 985-988: Basic Latin, Latin-1 Supplement, Latin Extended-A and -B
ProbedRanges ==
    { [startCode |-> 32, endCode |-> 127], [startCode |-> 160, endCode |-> 255],
      [startCode |-> 256, endCode |-> 383], [startCode |-> 384, endCode |-> 591] }

\* lines 991-1002
ProbedLists == {Digits, CurrencySymbols, BasicPunctuation, ExtendedPunctuation}

\* The first code point of a run of mapped code points
RunStarts == {32, 48, 160, 256, 384}

\* The length of the run
RunLengths == {0, 3, 6, 7, 28, 32, 66, 67, 68, 89, 90, 145, 146, 208}

CoverageFonts ==
    { [encoding |-> [mapped   |-> {<<lo, lo + n - 1>>},
                     throwing |-> IF throws THEN {<<lo + 1, lo + 1>>} ELSE {}],
       advance  |-> [digits |-> <<500, 500, 500, 500, 500, 500, 500, 500, 500, 500>>,
                     other |-> 600, notdef |-> 500]] :
        lo \in RunStarts, n \in RunLengths, throws \in BOOLEAN }

InitCoverage ==
    /\ input \in [font : CoverageFonts, range : ProbedRanges]
                     \cup [font : CoverageFonts, characters : ProbedLists]
    /\ results = <<>>

CallHasCharacterRange ==
    /\ results = <<>>
    /\ "range" \in DOMAIN input
    /\ results' = <<hasCharacterRange(input.font, input.range.startCode,
                                      input.range.endCode)>>
    /\ UNCHANGED input

CallHasSpecificCharacters ==
    /\ results = <<>>
    /\ "characters" \in DOMAIN input
    /\ results' = <<hasSpecificCharacters(input.font, input.characters)>>
    /\ UNCHANGED input

NextCoverage == CallHasCharacterRange \/ CallHasSpecificCharacters

SpecCoverage == InitCoverage /\ [][NextCoverage]_vars

---------------------------------------------------------------------------
(* determineShape(xHeight, capHeight, ascender, descender) on quotients of *)
(* font units over 1000 units per em, a cap height of 0 included; 490 over *)
(* 700, 350 over 700 and 840 over 700 are exactly 0.7, 0.5 and 1.2         *)

ShapeArgs ==
    [xHeight   : {Ratio(n, 1000) : n \in {0, 300, 350, 490, 500, 720}},
     capHeight : {Ratio(n, 1000) : n \in {0, 700, 1000}},
     ascender  : {Ratio(n, 1000) : n \in {0, 800, 840, 1300}},
     descender : {Ratio(n, 1000) : n \in {0, 200, 400, 600}}]

InitShape == input \in ShapeArgs /\ results = <<>>

CallDetermineShape ==
    /\ results = <<>>
    /\ results' = <<determineShape(input.xHeight, input.capHeight,
                                   input.ascender, input.descender)>>
    /\ UNCHANGED input

NextShape == CallDetermineShape

SpecShape == InitShape /\ [][NextShape]_vars

---------------------------------------------------------------------------
(* useFontAnalysis with the FontContext it reads and writes.               *)
(* analyzeFontAsync is invoked up to MaxInvocations times, each invocation  *)
(* awaiting analyzeFontFile, which settles at any later time; the hook does *)
(* not consult isAnalyzing before it starts.  input.fontFile is the         *)
(* fontFile of the context, set and removed by the FontUploader;            *)
(* results.fontMetrics is the fontMetrics of the context, which the         *)
(* AnalysisResults page also sets.  The context belongs to the FontProvider *)
(* above the routes, and an invocation that awaits goes on whatever page is *)
(* shown.                                                                   *)

\* file.name.split('.').pop(): the characters after the last '.' among the
\* first hi characters, the whole name when there is none
RECURSIVE AfterLastDot(_, _)
AfterLastDot(fileName, hi) ==
    IF hi = 0 THEN fileName
    ELSE IF SubSeq(fileName, hi, hi) = "." THEN SubSeq(fileName, hi + 1, Len(fileName))
    ELSE AfterLastDot(fileName, hi - 1)

\* Compare lines 33-36, and the same text in FontUploader lines 103-106: '.'
\* and the lower-cased characters after the last dot are one of the four
\* formats
HasValidFormat(file) ==
    ("." \o toLowerCase(AfterLastDot(file, Len(file))))
        \in {".ttf", ".otf", ".woff", ".woff2"}

MaxInvocations == 4

UploadedFiles == {"acme.ttf", "ACME.OTF", "notes.txt"}

\* AnalysisResults lines 120-138: the fixed record that the page stores
MockFontMetrics == "metrics of the AnalysisResults page"

InitAnalysisHook ==
    /\ input \in [fontFile : {Null, "acme.ttf"}]
    /\ results = [isAnalyzing |-> FALSE, invocations |-> <<>>, fontMetrics |-> Null]

\* FontUploader lines 102-112, reached from handleDrop and handleFileChange:
\* a file of a valid format becomes the fontFile of the context
validateAndSetFile(file) ==
    /\ input' = IF HasValidFormat(file) THEN [input EXCEPT !.fontFile = file]
                ELSE input
    /\ UNCHANGED results

\* FontUploader lines 187-195, the button shown while a font is set:
\* setFontFile(null)
RemoveFontFile ==
    /\ input.fontFile # Null
    /\ input' = [input EXCEPT !.fontFile = Null]
    /\ UNCHANGED results

\* AnalysisResults lines 115-140: the effect of the page stores the fixed
\* metrics when a font is set and the context has no metrics
AnalysisResultsEffect ==
    /\ input.fontFile # Null
    /\ results.fontMetrics = Null
    /\ results' = [results EXCEPT !.fontMetrics = MockFontMetrics]
    /\ UNCHANGED input

\* lines 18-33: without a font the invocation returns false at once, with
\* one it sets isAnalyzing and awaits analyzeFontFile
CallAnalyzeFontAsync ==
    /\ Len(results.invocations) < MaxInvocations
    /\ results' =
           IF input.fontFile = Null
           THEN [results EXCEPT !.invocations = Append(@, "returned false")]
           ELSE [results EXCEPT !.isAnalyzing = TRUE,
                                !.invocations = Append(@, "awaiting")]
    /\ UNCHANGED input

\* lines 35-58 and 64-66: the analysis of invocation i fulfils; the metrics
\* are stored, the invocation returns true and the finally block runs
AnalysisFulfils(i) ==
    /\ results.invocations[i] = "awaiting"
    /\ results' = [isAnalyzing |-> FALSE,
                   invocations |-> [results.invocations EXCEPT ![i] = "returned true"],
                   fontMetrics |-> "metrics of invocation " \o ToString(i)]
    /\ UNCHANGED input

\* lines 59-66: the analysis of invocation i rejects; the invocation returns
\* false and the finally block runs
AnalysisRejects(i) ==
    /\ results.invocations[i] = "awaiting"
    /\ results' = [isAnalyzing |-> FALSE,
                   invocations |-> [results.invocations EXCEPT ![i] = "returned false"],
                   fontMetrics |-> results.fontMetrics]
    /\ UNCHANGED input

NextAnalysisHook ==
    \/ \E file \in UploadedFiles : validateAndSetFile(file)
    \/ RemoveFontFile
    \/ AnalysisResultsEffect
    \/ CallAnalyzeFontAsync
    \/ \E i \in 1..Len(results.invocations) : AnalysisFulfils(i)
    \/ \E i \in 1..Len(results.invocations) : AnalysisRejects(i)

SpecAnalysisHook == InitAnalysisHook /\ [][NextAnalysisHook]_vars

---------------------------------------------------------------------------
\* The Compare page (Compare component with the useFontComparison hook) as a
\* state machine.  input is the FontContext: the primary font file.  results
\* is the component state after the last render:
\*   compareFont        the selected comparison font (useState, line 15)
\*   isComparing        the hook's flag
\*   comparisonResults  Null, or the comparison stored by the hook, named by
\*                      the secondary font it was computed from
\*   pending            Null, or the secondary font of the compareFonts call
\*                      that compareFontsAsync is awaiting
\*   effectDeps         the compareFont of the dependency array with which
\*                      the clearing effect last ran
\*   effectDue          the clearing effect is scheduled: a render has
\*                      happened since it last ran.  clearComparisonResults
\*                      is a new function on every render of the hook, so the
\*                      dependency array differs after every render.

CompareFontFiles == {"sans.ttf", "serif.otf", "mono.woff", "script.woff2"}

ChosenFiles == CompareFontFiles \cup {"FONT.TTF", "woff2", "notes.txt"}

\* the state after mounting: the first render has happened and its effects
\* are scheduled
InitComparePage ==
    /\ input \in [fontFile : {Null, "acme.ttf"}]
    /\ results = [compareFont |-> Null, isComparing |-> FALSE,
                  comparisonResults |-> Null, pending |-> Null,
                  effectDeps |-> Null, effectDue |-> TRUE]

\* Compare lines 30-43, the file input's onChange (lines 120-125, never
\* disabled): a file of a valid format becomes compareFont, which renders
handleFileChange(file) ==
    /\ results' = IF HasValidFormat(file)
                  THEN [results EXCEPT !.compareFont = file,
                                       !.effectDue = TRUE]
                  ELSE results
    /\ UNCHANGED input

\* Compare lines 45-52 behind the button of lines 131-135, and
\* compareFontsAsync lines 19-34 up to its await
handleCompare ==
    /\ results.compareFont # Null
    /\ ~results.isComparing
    /\ results' = IF input.fontFile = Null
                  THEN results
                  ELSE [results EXCEPT !.isComparing = TRUE,
                                       !.pending = results.compareFont,
                                       !.effectDue = TRUE]
    /\ UNCHANGED input

\* compareFontsAsync lines 34-43 and 50-52: the awaited comparison fulfils
ComparisonFulfils ==
    /\ results.pending # Null
    /\ results' = [results EXCEPT !.comparisonResults = results.pending,
                                  !.pending = Null,
                                  !.isComparing = FALSE,
                                  !.effectDue = TRUE]
    /\ UNCHANGED input

\* compareFontsAsync lines 44-52: the awaited comparison rejects
ComparisonRejects ==
    /\ results.pending # Null
    /\ results' = [results EXCEPT !.pending = Null,
                                  !.isComparing = FALSE,
                                  !.effectDue = TRUE]
    /\ UNCHANGED input

\* Compare lines 25-28 with clearComparisonResults (hook lines 58-60): the
\* scheduled effect runs; setComparisonResults(null) renders again only if
\* the results were set
ClearingEffect ==
    /\ results.effectDue
    /\ results' = [results EXCEPT !.comparisonResults = Null,
                                  !.effectDeps = results.compareFont,
                                  !.effectDue = (results.comparisonResults # Null)]
    /\ UNCHANGED input

NextComparePage ==
    \/ \E file \in ChosenFiles : handleFileChange(file)
    \/ handleCompare
    \/ ComparisonFulfils
    \/ ComparisonRejects
    \/ ClearingEffect

SpecComparePage == InitComparePage /\ [][NextComparePage]_vars

---------------------------------------------------------------------------
(* calculateCompatibilityScore and generatePairingRecommendations on a pair *)

PairedSummaries ==
    [name        : {"Acme Sans", "Acme Serif"},
     format      : {"TrueType", "OpenType/CFF"},
     weight      : {"Regular (400)", "Bold"},
     metrics     : [xHeight : {NaN, 0, 45, 50, 70}, contrast : {"Low", "High"}],
     personality : [formality : {NaN, 20, 55, 85}]]

InitPairing ==
    input \in [font1 : PairedSummaries, font2 : PairedSummaries] /\ results = <<>>

\* compareFonts lines 1336-1339: the score and the pairing recommendations of
\* the two analysis results
CallScoreAndPairing ==
    /\ results = <<>>
    /\ results' = <<[compatibilityScore |->
                         calculateCompatibilityScore(input.font1, input.font2),
                     pairingRecommendations |->
                         generatePairingRecommendations(input.font1, input.font2)]>>
    /\ UNCHANGED input

NextPairing == CallScoreAndPairing

SpecPairing == InitPairing /\ [][NextPairing]_vars

---------------------------------------------------------------------------
(* generateRecommendations on every font of the family: the entries that    *)
(* its fingerprint-indexed selection (lines 901-948) takes from each pool   *)

InitFlavor ==
    /\ input \in [contrast : ContrastLabels,
                  strokeTerminals : {"None", "Rounded", "Square"}]
    /\ results = <<>>

\* lines 901-948 of the call for the next font of the family: the one or two
\* entries selected from the recommended pool and from the discouraged pool
CallSelectFlavorsOfNextFont ==
    /\ Len(results) < FamilySize
    /\ LET fontMetrics == FamilyMetrics(Len(results) + 1, input.contrast,
                                        input.strokeTerminals)
       IN  results' = Append(results,
               [recommended    |-> FlavorPicks(uniqueRecommendations,
                                               MetricsSum(fontMetrics), 100, 200),
                notRecommended |-> FlavorPicks(uniqueNonRecommendations,
                                               MetricsSum(fontMetrics), 300, 400)])
    /\ UNCHANGED input

NextFlavor == CallSelectFlavorsOfNextFont

SpecFlavor == InitFlavor /\ [][NextFlavor]_vars

---------------------------------------------------------------------------
(* Claims                                                                  *)

\* C1: every trait returned by analyzeFontPersonality is an integer in 0..100,
\* for every style label and every metrics record, degenerate ones included.
C1_TraitsWithinRange ==
    \A i \in 1..Len(results) : \A k \in 1..6 : results[i][TraitNames[k]] \in 0..100

\* C2: the compatibility score of every pair of analysis results is an integer
\* between 0 and 100.
C2_ScoreWithinRange ==
    \A i \in 1..Len(results) : results[i] \in 0..100

\* C2 witness: a pair that collects every bonus has been scored.
C2_Witness ==
    /\ Len(results) = 1
    /\ input.font1.format # input.font2.format
    /\ input.font1.weight # input.font2.weight
    /\ results[1] = 95

\* The positions of list that hold the first occurrence of their entry.
FirstOccurrences(list) ==
    {i \in 1..Len(list) : \A j \in 1..(i - 1) : list[j] # list[i]}

NoDuplicates(list) ==
    \A i, j \in 1..Len(list) : i # j => list[i] # list[j]

\* result is the first cap distinct entries of pushed, in insertion order.
IsFirstDistinct(result, pushed, cap) ==
    LET first == FirstOccurrences(pushed)
    IN  /\ Len(result) = Min(cap, Cardinality(first))
        /\ \A k \in 1..Len(result) :
               \E i \in first :
                   /\ Cardinality({j \in first : j <= i}) = k
                   /\ result[k] = pushed[i]

\* C3: recommendedUses and notRecommendedUses hold at most 6 entries and
\* fontPairings at most 4, no list holds the same string twice, and each list is
\* the first 6 (or 4) distinct entries pushed, in insertion order (duplicates are
\* removed before the list is truncated).
C3_ListsDedupedThenCapped ==
    \A i \in 1..Len(results) :
        LET r == results[i]
        IN  /\ Len(r.recommendedUses) <= 6
            /\ Len(r.notRecommendedUses) <= 6
            /\ Len(r.fontPairings) <= 4
            /\ NoDuplicates(r.recommendedUses)
            /\ NoDuplicates(r.notRecommendedUses)
            /\ NoDuplicates(r.fontPairings)
            /\ IsFirstDistinct(r.recommendedUses,
                   RecommendedPushed(input.fontStyle, input.fontMetrics,
                                     input.fontPersonality), 6)
            /\ IsFirstDistinct(r.notRecommendedUses,
                   NotRecommendedPushed(input.fontStyle, input.fontMetrics,
                                        input.fontPersonality), 6)
            /\ IsFirstDistinct(r.fontPairings,
                   PairingsPushed(input.fontStyle, input.fontPersonality), 4)

\* C3 witness: recommendations were generated from pushes that repeat an entry
\* within the first six and hold more than six distinct entries, so that the
\* removal of duplicates and the cap both act, and their order shows.
C3_Witness ==
    /\ Len(results) = 1
    /\ LET pushed == RecommendedPushed(input.fontStyle, input.fontMetrics,
                                       input.fontPersonality)
       IN  /\ Cardinality(FirstOccurrences(pushed)) > 6
           /\ \E i, j \in 1..6 : i < j /\ pushed[i] = pushed[j]
           /\ Len(results[1].recommendedUses) = 6
    /\ Len(results[1].fontPairings) = 4

\* The x-height bonus as the claim words it: one band of the relative
\* difference, computed in the program's arithmetic; two equal x-heights
\* differ by 0%, two unparseable ones fall in no band.
ClaimedXHeightBonus(x1, x2) ==
    IF isNaN(x1) \/ isNaN(x2) THEN 0
    ELSE IF x1 = x2 THEN 15
    ELSE IF RelativeDiffBelow(x1, x2, 1) THEN 15
    ELSE IF RelativeDiffBelow(x1, x2, 2) THEN 10
    ELSE IF RelativeDiffBelow(x1, x2, 3) THEN 5
    ELSE 0

ClaimedScore(font1, font2) ==
    50
    + (IF font1.format # font2.format THEN 10 ELSE 0)
    + (IF font1.weight # font2.weight THEN 10 ELSE 0)
    + ClaimedXHeightBonus(font1.metrics.xHeight, font2.metrics.xHeight)
    + (IF Gt(FormalityDiff(font1, font2), 30) THEN 10 ELSE 0)

\* C9: the compatibility score of every pair is 50 + 10 for differing formats
\* + 10 for differing weight labels + exactly one x-height band bonus
\* (15 / 10 / 5 / 0) + 10 for a formality gap above 30; in particular two fonts
\* with identical em metrics and identical format score
\* 50 + weight bonus + 15 + formality bonus.
C9_ScoreIsSumOfBonuses ==
    \A i \in 1..Len(results) :
        /\ results[i] = ClaimedScore(input.font1, input.font2)
        /\ ( /\ input.font1.metrics = input.font2.metrics
             /\ ~isNaN(input.font1.metrics.xHeight)
             /\ input.font1.format = input.font2.format )
           => results[i] = 50
                           + (IF input.font1.weight # input.font2.weight THEN 10 ELSE 0)
                           + 15
                           + (IF Gt(FormalityDiff(input.font1, input.font2), 30)
                              THEN 10 ELSE 0)

FontStyles == {"serif", "sans-serif", "script", "decorative", "monospace"}

\* C4: for every parsed font determineFontStyle returns exactly one of serif,
\* sans-serif, script, decorative, monospace, decided by the names, the PANOSE
\* bytes, the family class and the fixed-pitch flag alone, and returns
\* sans-serif when none of them decides.
C4_StyleIsOneOfFiveLabels ==
    \A i \in 1..Len(results) :
        /\ ~results[i].threw
        /\ results[i].value \in FontStyles
        /\ ( /\ NameStyle(StyleCombinedName(input.font.names)) = ""
             /\ "os2" \in DOMAIN input.font.tables => OS2Style(input.font.tables.os2) = ""
             /\ ~("post" \in DOMAIN input.font.tables
                    /\ Truthy(input.font.tables.post, "isFixedPitch")) )
           => results[i].value = "sans-serif"

\* The font has a PANOSE classification whose family type (byte 0) is 3.
PanoseFamilyTypeIs3(font) ==
    /\ "os2" \in DOMAIN font.tables
    /\ "panose" \in DOMAIN font.tables.os2
    /\ PanoseByte(font.tables.os2.panose, 0) = 3

\* C7 as stated: whenever determineFontStyle returns for a font whose PANOSE
\* family type is 3, it returns script, whatever the names contain.
C7_ScriptWhateverTheNames ==
    \A i \in 1..Len(results) :
        (PanoseFamilyTypeIs3(input.font) /\ ~results[i].threw)
            => results[i].value = "script"

\* C7: for every font whose PANOSE family type is 3, and whose family, full
\* and PostScript names are each absent or an English string and together fire
\* none of the name rules, the style is script.
C7_ScriptWhenNamesDecideNothing ==
    \A i \in 1..Len(results) :
        ( /\ PanoseFamilyTypeIs3(input.font)
          /\ \A key \in {"fontFamily", "fullName", "postScriptName"} :
                 ~NameThrows(input.font.names, key)
          /\ NameStyle(StyleCombinedName(input.font.names)) = "" )
        => (~results[i].threw /\ results[i].value = "script")

\* C7 witness: a monospaced font of PANOSE family type 3, named with both
\* "sans" and "serif", has been classified as script.
C7_Witness ==
    /\ Len(results) = 1
    /\ PanoseFamilyTypeIs3(input.font)
    /\ PanoseByte(input.font.tables.os2.panose, 3) = 9
    /\ "fontFamily" \in DOMAIN input.font.names
    /\ input.font.names.fontFamily = [en |-> "Sans Serif Pro"]
    /\ results[1] = Returned("script")

\* Some English name string of the font contains "Condensed".
NamesContainCondensed(names) ==
    \E key \in DOMAIN names :
        "en" \in DOMAIN names[key] /\ Includes(names[key].en, "Condensed")

WeightClassIs700(font) ==
    /\ "os2" \in DOMAIN font.tables
    /\ "usWeightClass" \in DOMAIN font.tables.os2
    /\ font.tables.os2.usWeightClass = 700

\* C8 as stated: every font whose OS/2 weight class is 700 and whose names
\* contain "Condensed" has weight "Bold (700)" and width "Condensed (3)".
C8_BoldCondensedWheneverNamed ==
    \A i \in 1..Len(results) :
        (WeightClassIs700(input.font) /\ NamesContainCondensed(input.font.names))
            => results[i] = [weight |-> "Bold (700)", width |-> "Condensed (3)"]

\* C8: every font whose OS/2 weight class is 700, whose OS/2 width class is 0
\* or missing, and whose full, family and subfamily names are each absent or an
\* English string and, lower-cased and joined, contain "condensed" but none of
\* "ultra condensed", "extra condensed" and "semi", has weight "Bold (700)" and
\* width "Condensed (3)".
C8_BoldCondensedFromNames ==
    \A i \in 1..Len(results) :
        ( /\ WeightClassIs700(input.font)
          /\ ~Truthy(input.font.tables.os2, "usWidthClass")
          /\ ~WeightWidthNameThrows(input.font.names)
          /\ Includes(WeightWidthCombinedName(input.font.names), "condensed")
          /\ ~Includes(WeightWidthCombinedName(input.font.names), "ultra condensed")
          /\ ~Includes(WeightWidthCombinedName(input.font.names), "extra condensed")
          /\ ~Includes(WeightWidthCombinedName(input.font.names), "semi") )
        => results[i] = [weight |-> "Bold (700)", width |-> "Condensed (3)"]

\* C8 witness: a font of weight class 700 without a width class, named
\* "Acme Bold Condensed", has been labelled Bold and Condensed.
C8_Witness ==
    /\ Len(results) = 1
    /\ WeightClassIs700(input.font)
    /\ input.font.tables.os2.usWidthClass = 0
    /\ "fullName" \in DOMAIN input.font.names
    /\ input.font.names.fullName = [en |-> "Acme Bold Condensed"]
    /\ results[1] = [weight |-> "Bold (700)", width |-> "Condensed (3)"]

\* The documented tier values of the five descriptors for a font of n glyphs.
DocumentedTiers(n) ==
    [latin       |-> {"Complete (" \o ToString(n) \o " glyphs)",
                      "Extended (Western European)", "Basic (ASCII only)"},
     numerals    |-> {"Proportional", "Tabular", "Proportional and Tabular"},
     symbols     |-> {"Basic (+currency)", "Basic"},
     punctuation |-> {"Complete", "Basic"},
     languages   |-> {"Latin-based (Western European)", "Latin-based (limited)",
                      "English only"}]

Descriptors == {"latin", "numerals", "symbols", "punctuation", "languages"}

\* C6 as stated: for every font, one that covers none of the probed ranges and
\* lists included, each descriptor returned by analyzeCharacterSet is one of
\* its documented tier values, and no other value is produced.
C6_DescriptorsAreDocumentedTiers ==
    \A i \in 1..Len(results) :
        /\ DOMAIN results[i] = Descriptors
        /\ \A d \in Descriptors :
               results[i][d] \in DocumentedTiers(input.font.glyphs.length)[d]

\* C6: for every font each descriptor returned by analyzeCharacterSet is one
\* of its documented tier values, or "Unknown" for latin, numerals, punctuation
\* and languages when the font reaches none of that descriptor's tiers; symbols
\* is always one of its two tiers.
C6_DescriptorsAreTiersOrUnknown ==
    \A i \in 1..Len(results) :
        /\ DOMAIN results[i] = Descriptors
        /\ \A d \in Descriptors :
               \/ results[i][d] \in DocumentedTiers(input.font.glyphs.length)[d]
               \/ d # "symbols" /\ results[i][d] = "Unknown"

\* C6 witness: a font that maps none of the probed code points, and whose
\* placeholder glyph has no advance width, has been surveyed.
C6_Witness ==
    /\ Len(results) = 1
    /\ input.font.encoding.mapped = {}
    /\ input.font.encoding.throwing = {}
    /\ results[1] = [latin |-> "Unknown", numerals |-> "Unknown", symbols |-> "Basic",
                     punctuation |-> "Unknown", languages |-> "Unknown"]

\* The glyph lookup of the font throws for every code point of the range, or
\* for every character of the list.
ThrowsForRange(font, startCode, endCode) ==
    \A code \in startCode..endCode : InIntervals(code, font.encoding.throwing)

ThrowsForList(font, characters) ==
    \A i \in 1..Len(characters) : InIntervals(characters[i], font.encoding.throwing)

ThrowsForSomeProbe(font) ==
    \/ ThrowsForRange(font, 32, 127) \/ ThrowsForRange(font, 160, 255)
    \/ ThrowsForRange(font, 256, 383) \/ ThrowsForRange(font, 384, 591)
    \/ ThrowsForList(font, Digits) \/ ThrowsForList(font, CurrencySymbols)
    \/ ThrowsForList(font, BasicPunctuation) \/ ThrowsForList(font, ExtendedPunctuation)

\* C10: when the glyph lookup throws for every code point of a probed range,
\* or for every character of a probed list, that range or list is reported as
\* not covered, and analyzeCharacterSet still returns the record of five
\* descriptors built by the complete survey: no error escapes a probe.
C10_ThrowingLookupsCountAsNotCovered ==
    \A i \in 1..Len(results) :
        LET font == input.font
            info == results[i]
        IN  /\ DOMAIN info = Descriptors
            /\ ThrowsForSomeProbe(font) => info.symbols \in {"Basic (+currency)", "Basic"}
            /\ ThrowsForRange(font, 32, 127)
                   => info.latin = "Unknown" /\ info.languages = "Unknown"
            /\ ThrowsForRange(font, 160, 255)
                   => /\ info.latin \in {"Basic (ASCII only)", "Unknown"}
                      /\ info.languages \in {"English only", "Unknown"}
            /\ ThrowsForRange(font, 256, 383)
                   => /\ info.latin \in {"Extended (Western European)",
                                         "Basic (ASCII only)", "Unknown"}
                      /\ info.languages # "Latin-based (Western European)"
            /\ ThrowsForRange(font, 384, 591)
                   => info.latin \in {"Extended (Western European)",
                                      "Basic (ASCII only)", "Unknown"}
            /\ ThrowsForList(font, Digits) => info.numerals = "Unknown"
            /\ ThrowsForList(font, CurrencySymbols) => info.symbols = "Basic"
            /\ ThrowsForList(font, BasicPunctuation) => info.punctuation = "Unknown"
            /\ ThrowsForList(font, ExtendedPunctuation) => info.punctuation # "Complete"

\* C10 witness: the lookup throws for all of Latin-1 Supplement, which the font
\* maps, and the survey has reported Basic Latin alone as covered.
C10_Witness ==
    /\ Len(results) = 1
    /\ input.font.encoding.throwing = {<<160, 255>>}
    /\ InIntervals(200, input.font.encoding.mapped)
    /\ results[1].latin = "Basic (ASCII only)"
    /\ results[1].languages = "English only"
    /\ results[1].symbols = "Basic"

\* d1 and d2 are one text around two middle clauses: d1 = a \o m1 \o b and
\* d2 = a \o m2 \o b for clauses m1 and m2 of the set.
SameAroundMiddleClause(d1, d2, clauses) ==
    \E m1, m2 \in clauses :
        /\ Len(d1) - Len(m1) = Len(d2) - Len(m2)
        /\ \E p \in 0..(Len(d1) - Len(m1)) :
               /\ SubSeq(d1, p + 1, p + Len(m1)) = m1
               /\ SubSeq(d2, p + 1, p + Len(m2)) = m2
               /\ SubSeq(d1, 1, p) = SubSeq(d2, 1, p)
               /\ SubSeq(d1, p + Len(m1) + 1, Len(d1))
                      = SubSeq(d2, p + Len(m2) + 1, Len(d2))

\* The contrast clause and the terminal clause of a metrics record; the
\* terminal clause of a font without stroke terminals is empty.
MiddleClauses(metrics) ==
    {ContrastDesc(metrics.contrast), TerminalDesc(metrics.strokeTerminals)}

ResultFields ==
    {"name", "size", "type", "lastModified", "format", "version", "copyright",
     "manufacturer", "style", "metrics", "personality", "recommendations",
     "characterSet", "weight", "width"}

\* The calls of analyzeFontFile whose promise has settled
SettledCalls == {call \in 1..Len(results.promises) : results.promises[call] # Pending}

\* C5: two analyses of the same font file agree on every field (identity,
\* format, style, metrics, the six trait scores, characterSet, weight, width,
\* recommendations); personality.emotionalDescription alone may differ, and
\* only by its contrast-or-terminal middle clause.
C5_RepeatedAnalysesAgree ==
    \A i, j \in SettledCalls :
        /\ results.promises[i].status = results.promises[j].status
        /\ results.promises[i].status = "rejected"
               => results.promises[i] = results.promises[j]
        /\ results.promises[i].status = "fulfilled" =>
               LET r1 == results.promises[i].value
                   r2 == results.promises[j].value
               IN  /\ DOMAIN r1 = ResultFields /\ DOMAIN r2 = ResultFields
                   /\ \A f \in ResultFields \ {"personality"} : r1[f] = r2[f]
                   /\ \A k \in 1..6 :
                          r1.personality[TraitNames[k]] = r2.personality[TraitNames[k]]
                   /\ SameAroundMiddleClause(r1.personality.emotionalDescription,
                                             r2.personality.emotionalDescription,
                                             MiddleClauses(r1.metrics))

\* C5 witness: the same font file has been analysed twice, the second call
\* started while the first awaited its read and settled before it, and the
\* two descriptions differ.
C5_Witness ==
    /\ results.settled = <<2, 1>>
    /\ results.promises[1].status = "fulfilled"
    /\ results.promises[2].status = "fulfilled"
    /\ results.promises[1].value.personality.emotionalDescription
           # results.promises[2].value.personality.emotionalDescription
    /\ results.promises[1].value.recommendations
           = results.promises[2].value.recommendations

\* The message of the error that made the read or the parse of the file fail.
RootCauseMessage(fontFile) ==
    IF "readError" \in DOMAIN fontFile THEN fontFile.readError.message
    ELSE fontFile.parseError

\* C11: when the file read or the font parse fails, analyzeFontFile returns no
\* result: it rejects with one error whose message is "Failed to analyze
\* font: " followed by the message of the root cause, and no later stage
\* (style, metrics, personality, recommendations, character set, weight,
\* width) runs.
C11_ReadOrParseFailureIsWrapped ==
    \A i \in 1..Len(results) :
        ("readError" \in DOMAIN input.fontFile \/ "parseError" \in DOMAIN input.fontFile)
        => /\ results[i].outcome
                  \in {Pending,
                       Rejected("Failed to analyze font: "
                                    \o RootCauseMessage(input.fontFile))}
           /\ results[i].calls \in {<<"readFileAsArrayBuffer">>,
                                    <<"readFileAsArrayBuffer", "opentype.parse">>}

\* The analysis of the file fails.
AnalysisFails(fontFile) == analyzeFontFile(fontFile, TRUE).status = "rejected"

ComparisonFields ==
    {"primaryFont", "secondaryFont", "metrics", "personality", "characterSet",
     "general", "compatibilityScore", "pairingRecommendations"}

\* C12: compareFonts returns a comparison record only if both analyses
\* succeeded; when the analysis of the primary or of the secondary font fails
\* it rejects with a "Font comparison failed: ..." error and no partial
\* comparison, and when the primary analysis fails the secondary font is never
\* read.
C12_ComparisonNeedsBothAnalyses ==
    \A i \in 1..Len(results) :
        LET outcome == results[i].outcome
            failed  == \/ AnalysisFails(input.primaryFontFile)
                       \/ AnalysisFails(input.secondaryFontFile)
        IN  /\ outcome # Pending => (outcome.status = "fulfilled" <=> ~failed)
            /\ outcome.status = "fulfilled" => DOMAIN outcome.value = ComparisonFields
            /\ (failed /\ outcome # Pending) =>
                   /\ DOMAIN outcome = {"status", "message"}
                   /\ outcome.status = "rejected"
                   /\ SubSeq(outcome.message, 1, 24) = "Font comparison failed: "
            /\ AnalysisFails(input.primaryFontFile) =>
                   \A k \in 1..Len(results[i].calls) :
                       results[i].calls[k].file = "primary"

\* C12 witness: a comparison whose primary file cannot be read and whose
\* secondary file is a font has been rejected after the one read.
C12_Witness ==
    /\ Len(results) = 1
    /\ "readError" \in DOMAIN input.primaryFontFile
    /\ ~AnalysisFails(input.secondaryFontFile)
    /\ results[1].outcome.status = "rejected"
    /\ results[1].calls = <<[file |-> "primary", call |-> "readFileAsArrayBuffer"]>>


\* C13: for every font that parses, a per-field extraction failure (a missing
\* table, an unmapped glyph, a name record that is present but has no English
\* string) never aborts analyzeFontFile: a fully populated result is
\* returned.
C13_ParsedFontIsAlwaysAnalysed ==
    \A call \in SettledCalls :
        /\ results.promises[call].status = "fulfilled"
        /\ DOMAIN results.promises[call].value = ResultFields

\* The value the fallback chain described for calculateFontMetrics gives: the
\* OS/2 value when the table has one, else the measured or hhea value when
\* the font has the glyph or the table, else the default
FallbackChain(font, field, measured, default) ==
    IF "os2" \in DOMAIN font.tables /\ Truthy(font.tables.os2, field)
    THEN OS2Metric(font, field, default)
    ELSE IF measured.present THEN Ratio(measured.value, font.unitsPerEm)
    ELSE default

GlyphMeasure(font, code) ==
    [present |-> CountsAsCovered(font, code), value |-> GlyphYMax(font, code)]

HheaMeasure(font, field) ==
    [present |-> "hhea" \in DOMAIN font.tables,
     value   |-> IF "hhea" \in DOMAIN font.tables
                 THEN Abs(font.tables.hhea[field]) ELSE 0]

\* C14: when the OS/2 table gives no x-height or cap-height, the value is
\* measured from the glyph for "x" or "H" if that glyph exists; when it gives
\* no ascender or descender, the hhea value is used if the hhea table exists;
\* the defaults 0.5 / 0.7 / 0.8 / 0.2 em are returned only for a font that
\* has neither.
C14_MetricsFollowFallbackChain ==
    \A i \in 1..Len(results) :
        LET font    == input.font
            metrics == results[i].value
        IN  /\ ~results[i].threw
            /\ metrics.xHeight = toFixed2(FallbackChain(font, "sxHeight",
                                     GlyphMeasure(font, 120), Ratio(1, 2)))
            /\ metrics.capHeight = toFixed2(FallbackChain(font, "sCapHeight",
                                       GlyphMeasure(font, 72), Ratio(7, 10)))
            /\ metrics.ascender = toFixed2(FallbackChain(font, "sTypoAscender",
                                      HheaMeasure(font, "ascender"), Ratio(4, 5)))
            /\ metrics.descender = toFixed2(FallbackChain(font, "sTypoDescender",
                                       HheaMeasure(font, "descender"), Ratio(1, 5)))

CanonicalWidthLabels ==
    {"Ultra Condensed (1)", "Extra Condensed (2)", "Condensed (3)",
     "Semi Condensed (4)", "Normal (5)", "Semi Expanded (6)", "Expanded (7)",
     "Extra Expanded (8)", "Ultra Expanded (9)"}

\* The OS/2 width class is a nonzero value outside 1..9
WidthClassOutOfRange(font) ==
    /\ "os2" \in DOMAIN font.tables
    /\ Truthy(font.tables.os2, "usWidthClass")
    /\ font.tables.os2.usWidthClass \notin 1..9

\* C15 as stated: for every font, whatever value the OS/2 width class holds,
\* the width label is one of the nine canonical labels.
C15_WidthIsOneOfNineLabels ==
    \A i \in 1..Len(results) : results[i].width \in CanonicalWidthLabels

\* C15: for every font the width label is one of the nine canonical labels,
\* except that a font whose OS/2 width class N is nonzero and outside 1..9 is
\* labelled "Custom (N)".
C15_WidthIsCanonicalOrCustom ==
    \A i \in 1..Len(results) :
        IF WidthClassOutOfRange(input.font)
        THEN results[i].width
                 = "Custom (" \o ToString(input.font.tables.os2.usWidthClass) \o ")"
        ELSE results[i].width \in CanonicalWidthLabels

\* C15 witness: a font whose OS/2 width class is 10 has been labelled.
C15_Witness ==
    /\ Len(results) = 1
    /\ WidthClassOutOfRange(input.font)
    /\ input.font.tables.os2.usWidthClass = 10
    /\ results[1].width = "Custom (10)"

\* The weight label names the Bold, Heavy or Black band
InBoldBand(weight) ==
    \E band \in {"Bold", "Heavy", "Black"} :
        /\ Len(weight) >= Len(band)
        /\ SubSeq(weight, 1, Len(band)) = band

HeadingsFor(headings, body) ==
    TemplateText(headings) \o " for headings, " \o TemplateText(body)
        \o " for body text"

\* C16: in the pairing guidance of a comparison, when exactly one of the two
\* analysed fonts has a weight label in the Bold, Heavy or Black band, that
\* font is assigned to headings and the other to body text, whatever their
\* formality scores are.
C16_BoldBandFontTakesHeadings ==
    \A i \in 1..Len(results) :
        results[i].outcome.status = "fulfilled" =>
            LET value     == results[i].outcome.value
                primary   == value.primaryFont.name
                secondary == value.secondaryFont.name
                weight    == value.general.weight
                advice    == value.pairingRecommendations.headingsBody
            IN  /\ (InBoldBand(weight.primary) /\ ~InBoldBand(weight.secondary))
                       => advice = HeadingsFor(primary, secondary)
                /\ (InBoldBand(weight.secondary) /\ ~InBoldBand(weight.primary))
                       => advice = HeadingsFor(secondary, primary)

CategoricalMetrics == {"contrast", "strokeTerminals", "shape"}

NumericMetrics == {"xHeight", "capHeight", "ascender", "descender"}

\* text is the percentage that diff is of base, to one decimal, followed by
\* the direction
IsPercentageOf(text, diff, base, direction) ==
    LET below == (1000 * Abs(diff)) \div Abs(base)
    IN  \E tenths \in {below, below + 1} :
            /\ 2 * Abs(tenths * Abs(base) - 1000 * Abs(diff)) <= Abs(base)
            /\ text = PercentText(tenths) \o "% " \o direction

\* The difference of every numeric em metric is a percentage of the primary
\* value, signed by which is larger; of a primary value of 0 no number is a
\* percentage
NumericDifferencesAreOfPrimary(metrics) ==
    \A field \in NumericMetrics :
        LET primary   == metrics[field].primary
            secondary == metrics[field].secondary
        IN  /\ primary # 0
            /\ IsPercentageOf(metrics[field].difference, primary - secondary,
                              primary,
                              IF primary > secondary THEN "larger" ELSE "smaller")

\* C17: in the record returned by compareFonts, the difference of every
\* categorical metric field (contrast, strokeTerminals, shape) is
\* "Identical" when the two values are equal and "Different" otherwise, and
\* the difference of each numeric em metric is a percentage relative to the
\* primary font's value.
C17_CategoricalIdenticalOrDifferent ==
    \A i \in 1..Len(results) :
        results[i].outcome.status = "fulfilled" =>
            LET metrics == results[i].outcome.value.metrics
            IN  /\ \A field \in CategoricalMetrics :
                       metrics[field].difference
                           = IF metrics[field].primary = metrics[field].secondary
                             THEN "Identical" ELSE "Different"
                /\ NumericDifferencesAreOfPrimary(metrics)

\* The traits of the same style and metrics with the balanced shape class
BalancedCounterpart(fontStyle, fontMetrics) ==
    PersonalityTraits(fontStyle,
        [fontMetrics EXCEPT !.shape = "Balanced proportions, versatile and readable"])

\* The deltas described for the shape classes that determineShape produces
DescribedShapeDelta(shape) ==
    CASE shape = "Large x-height, more open and readable"
             -> Traits(0, 10, 0, 0, -5, 5)
      [] shape = "Small x-height, more elegant and traditional"
             -> Traits(0, 0, 0, 10, 5, -5)
      [] shape = "Tall ascenders, more distinctive and elegant"
             -> Traits(5, 0, 5, 5, 0, 0)
      [] shape = "Deep descenders, more distinctive and elegant"
             -> Traits(0, 0, 0, 5, 0, 5)
      [] OTHER -> Traits(0, 0, 0, 0, 0, 0)

\* C18: for two metrics records that differ only in shape, one of the large
\* x-height class produced by determineShape and the other of the balanced
\* class, the large x-height record gets approachability +10, traditionality
\* -5 and playfulness +5 relative to the balanced one before clamping, and
\* likewise the small x-height, tall ascender and deep descender classes get
\* their own deltas.  Compared where the balanced trait lies strictly inside
\* 0..100, so that it has not been clamped.
C18_ShapeDeltasApplied ==
    \A i \in 1..Len(results) : \A k \in 1..6 :
        LET trait    == TraitNames[k]
            balanced == BalancedCounterpart(input.fontStyle, input.fontMetrics)[trait]
        IN  balanced \in 1..99 =>
                results[i][trait]
                    = clamp(balanced + DescribedShapeDelta(input.fontMetrics.shape)[trait])

\* C19: the per-trait jitter added by analyzeFontPersonality lies in -5..4
\* and depends on the four em metric values: among the fonts of one style,
\* contrast bucket, terminal style, x-height bucket and shape class that
\* differ in their two-decimal em metrics, there are two whose trait scores
\* differ.  Stated of the family once every font of it has been analysed.
C19_JitterVariesWithinFamily ==
    Len(results) = FamilySize =>
        \E i, j \in 1..Len(results) : results[i] # results[j]

\* The code points a call probes, one entry per probe
ProbedCodes(args) ==
    IF "range" \in DOMAIN args
    THEN [i \in 1..(args.range.endCode - args.range.startCode + 1) |->
              args.range.startCode + i - 1]
    ELSE args.characters

\* The number of probes that resolve to a glyph other than the placeholder
ResolvedProbes(args) ==
    Cardinality({i \in 1..Len(ProbedCodes(args)) :
                     CountsAsCovered(args.font, ProbedCodes(args)[i])})

\* C20: hasCharacterRange reports a range as covered if and only if at least
\* 70% of the code points of the range resolve to a real glyph, for each of
\* the four probed ranges, and hasSpecificCharacters applies the same 70%
\* rule to the digit, currency and punctuation lists.
C20_CoveredIffSeventyPercent ==
    \A i \in 1..Len(results) :
        /\ ~results[i].threw
        /\ results[i].value
               <=> (10 * ResolvedProbes(input) >= 7 * Len(ProbedCodes(input)))

\* The digits that resolve to a glyph other than the placeholder
ResolvedDigits(font) == {i \in 1..10 : CountsAsCovered(font, Digits[i])}

\* C21: the numerals descriptor contains "Tabular" only for a font in which
\* at least five of the ten ASCII digits resolve to a real glyph and all
\* resolved digit glyphs have the same advance width; a font that maps no
\* digit at all is never reported as Tabular.
C21_TabularOnlyForResolvedDigits ==
    \A i \in 1..Len(results) :
        Includes(results[i].numerals, "Tabular") =>
            /\ Cardinality(ResolvedDigits(input.font)) >= 5
            /\ \A d, e \in ResolvedDigits(input.font) :
                   AdvanceWidth(input.font, Digits[d])
                       = AdvanceWidth(input.font, Digits[e])

\* The font has an OS/2 table with PANOSE bytes whose proportion byte is 9,
\* and its family, full and PostScript names are each absent or an English
\* string and together fire none of the name rules.
MonospacedWithoutNameSignal(font) ==
    /\ "os2" \in DOMAIN font.tables
    /\ "panose" \in DOMAIN font.tables.os2
    /\ PanoseByte(font.tables.os2.panose, 3) = 9
    /\ \A key \in {"fontFamily", "fullName", "postScriptName"} :
           ~NameThrows(font.names, key)
    /\ NameStyle(StyleCombinedName(font.names)) = ""

\* C22: for every font with no name signal whose PANOSE proportion
\* byte equals 9, the style is monospace, whatever the family-type byte and
\* the serif-style byte hold.
C22_MonospaceWhateverTheFamilyType ==
    \A i \in 1..Len(results) :
        MonospacedWithoutNameSignal(input.font)
            => results[i] = Returned("monospace")

\* The rules of determineShape that match the arguments, by their position
\* in the order large x-height, small x-height, tall ascenders, deep
\* descenders
MatchingShapeRules(args) ==
    {k \in 1..4 :
        \/ k = 1 /\ QuotientGt(args.xHeight, args.capHeight, 7, 10)
        \/ k = 2 /\ QuotientLt(args.xHeight, args.capHeight, 5, 10)
        \/ k = 3 /\ QuotientGt(args.ascender, args.capHeight, 12, 10)
        \/ k = 4 /\ QuotientGt(args.descender, args.capHeight, 5, 10)}

ShapeClassOfRule ==
    <<"Large x-height, more open and readable",
      "Small x-height, more elegant and traditional",
      "Tall ascenders, more distinctive and elegant",
      "Deep descenders, more distinctive and elegant">>

\* C23: determineShape evaluates its rules in the order large x-height
\* (x/cap > 0.7), small x-height (x/cap < 0.5), tall ascenders (asc/cap >
\* 1.2), deep descenders (desc/cap > 0.5), else balanced, and returns the
\* class of the first rule that matches, also where several rules match.
C23_FirstMatchingShapeRuleWins ==
    \A i \in 1..Len(results) :
        LET matching == MatchingShapeRules(input)
        IN  IF matching = {}
            THEN results[i] = "Balanced proportions, versatile and readable"
            ELSE \E k \in matching :
                     /\ \A j \in matching : k <= j
                     /\ results[i] = ShapeClassOfRule[k]

\* C23 witness: the shape of arguments that match the large x-height rule,
\* the tall ascender rule and the deep descender rule has been determined.
C23_Witness ==
    /\ Len(results) = 1
    /\ input.capHeight = Ratio(700, 1000)
    /\ MatchingShapeRules(input) = {1, 3, 4}
    /\ results[1] = "Large x-height, more open and readable"

\* The entries of a list
Entries(list) == {list[k] : k \in 1..Len(list)}

\* C24: for every style, metrics record and personality record, no string
\* appears in both the recommendedUses list and the notRecommendedUses list
\* returned by generateRecommendations.
C24_NoUseBothRecommendedAndNot ==
    \A i \in 1..Len(results) :
        Entries(results[i].recommendedUses)
            \cap Entries(results[i].notRecommendedUses) = {}

\* Some invocation of the hook is still awaiting its analysis
SomeInvocationAwaits ==
    \E i \in 1..Len(results.invocations) : results.invocations[i] = "awaiting"

\* C25: in the useFontAnalysis hook, for every interleaving of
\* analyzeFontAsync invocations, overlapping ones included, isAnalyzing is
\* true whenever at least one invocation is still awaiting analyzeFontFile,
\* and it is false once every invocation has finished, whether each
\* succeeded or failed.
C25_IsAnalyzingWhileAnyAwaits ==
    results.isAnalyzing = SomeInvocationAwaits

\* A step in which the stored comparison results are reset to null
ResultsCleared ==
    /\ results.comparisonResults # Null
    /\ results'.comparisonResults = Null

\* C26: on the Compare page, once comparisonResults is set, the results stay
\* set across later renders until the user selects a different comparison
\* font: a step resets them only when the selected comparison font differs
\* from the one the clearing effect last ran with.
C26_ResultsClearedOnlyOnFontChange ==
    [][ResultsCleared => results.compareFont # results.effectDeps]_vars

\* C27: on the Compare page, whenever comparisonResults is non-null it was
\* computed from the currently selected comparison font; a comparison started
\* for an earlier secondary font never becomes the stored result.
C27_ResultsOfSelectedPair ==
    results.comparisonResults # Null
        => results.comparisonResults = results.compareFont

\* The verdict of a contrast pairing text: similar or different
ContrastVerdict(text) ==
    IF text = "Similar contrast levels may create a more unified look"
    THEN "similar" ELSE "different"

\* The verdict of a hierarchy pairing text: similar or different
HierarchyVerdict(text) ==
    IF text = "Similar personalities create a harmonious design"
    THEN "similar" ELSE "different"

\* C28: the compatibility score is symmetric: for every pair of analysis
\* results A and B the score of (A, B) equals the score of (B, A), and the
\* hierarchy-pairing and contrast-pairing verdicts (different or similar) are
\* unchanged when primary and secondary are swapped.
C28_ScoreAndVerdictsSymmetric ==
    \A i \in 1..Len(results) :
        LET swapped == generatePairingRecommendations(input.font2, input.font1)
        IN  /\ results[i].compatibilityScore
                   = calculateCompatibilityScore(input.font2, input.font1)
            /\ HierarchyVerdict(results[i].pairingRecommendations.hierarchyPairing)
                   = HierarchyVerdict(swapped.hierarchyPairing)
            /\ ContrastVerdict(results[i].pairingRecommendations.contrastPairing)
                   = ContrastVerdict(swapped.contrastPairing)

\* C28 witness: a pair of different fonts, with x-heights whose difference is
\* a tenth of the larger one, a formality gap above 30 and different
\* contrast, has been scored 85 and judged different on both counts.
C28_Witness ==
    /\ Len(results) = 1
    /\ input.font1.metrics.xHeight = 45
    /\ input.font2.metrics.xHeight = 50
    /\ input.font1.name # input.font2.name
    /\ input.font1.format = input.font2.format
    /\ results[1].compatibilityScore = 85
    /\ HierarchyVerdict(results[1].pairingRecommendations.hierarchyPairing) = "different"
    /\ ContrastVerdict(results[1].pairingRecommendations.contrastPairing) = "different"

\* The bonuses of a pair added to the base of 50, before the clamp of line 1438
UnclampedScore(font1, font2) ==
    50
    + (IF font1.format # font2.format THEN 10 ELSE 0)
    + (IF font1.weight # font2.weight THEN 10 ELSE 0)
    + XHeightBonus(font1.metrics.xHeight, font2.metrics.xHeight)
    + (IF Gt(FormalityDiff(font1, font2), 30) THEN 10 ELSE 0)

\* C29: for every pair of analysis results the compatibility score is a
\* multiple of 5 between 50 and 95 inclusive: it never drops below the base of
\* 50, never reaches 100, and the final clamp to 0..100 never changes the
\* value.
C29_ScoreMultipleOfFiveFrom50To95 ==
    \A i \in 1..Len(results) :
        /\ results[i] \in 50..95
        /\ results[i] % 5 = 0
        /\ results[i] = UnclampedScore(input.font1, input.font2)

\* C29 witness: a pair with x-heights 0.45 and 0.50 em that collects every
\* bonus has been scored 95.
C29_Witness ==
    /\ Len(results) = 1
    /\ input.font1.metrics.xHeight = 45
    /\ input.font2.metrics.xHeight = 50
    /\ results[1] = 95
    /\ results[1] = UnclampedScore(input.font1, input.font2)

\* The entries of a pool
PoolEntries(pool) == {pool[i] : i \in 1..Len(pool)}

\* C30: the fingerprint-indexed flavor selection of generateRecommendations
\* can reach every candidate: for each entry of the 18-entry recommended pool
\* and each entry of the 15-entry discouraged pool there are two-decimal em
\* metric values for which that entry is one of the one or two entries
\* selected from its pool.  Stated of the family once the selection has been
\* made for every font of it; the sums of the family's fonts cover every
\* residue the two pool sizes distinguish.
C30_EveryFlavorReachable ==
    Len(results) = FamilySize =>
        /\ \A entry \in PoolEntries(uniqueRecommendations) :
               \E i \in 1..Len(results) : Contains(results[i].recommended, entry)
        /\ \A entry \in PoolEntries(uniqueNonRecommendations) :
               \E i \in 1..Len(results) : Contains(results[i].notRecommended, entry)

====
